---- MODULE Spec2Model ----
(***************************************************************************)
(* Long Press Alarm Clock: the dual-core task queue, the page state        *)
(* machine and the watchdog budget of src/alarm_clock_rp2040_w.ino.        *)
(*                                                                         *)
(* Statements of the two execution contexts interleave one at a time; an   *)
(* operation on std::queue and a load or store of one flag is one step.    *)
(* Results of the network collaborator (wifi_stuff) are nondeterministic.  *)
(***************************************************************************)
EXTENDS Integers, Sequences, FiniteSets, TLC

(***************************************************************************)
(* enum SecondCoreTask (common.h)                                          *)
(***************************************************************************)
kStartSetWiFiSoftAP == 0
kStopSetWiFiSoftAP == 1
kStartLocationInputsLocalServer == 2
kStopLocationInputsLocalServer == 3
kGetWeatherInfo == 4
kUpdateTimeFromNtpServer == 5
kConnectWiFi == 6
kDisconnectWiFi == 7
kFirmwareVersionCheck == 8
kNoTask == 9

SecondCoreTask == 0 .. (kNoTask - 1)

\* the build variants selected by the MCU_IS_* macros
McuVariants == {"MCU_IS_RP2040", "MCU_IS_ESP32_WROOM_DA_MODULE", "MCU_IS_ESP32_S2_MINI"}

\* loop1 runs in a context of its own on the dual core builds
DualCore(m) == m # "MCU_IS_ESP32_S2_MINI"

\* millis() when setup() has returned: some positive time
kMillisAfterSetup == 1

(***************************************************************************)
(* Bounds                                                                  *)
(***************************************************************************)
\* the primary context requests no further task while this many are queued
MaxQueue == 2
\* the primary context requests the first MaxRequested kinds of RequestOrder
MaxRequested == 4

\* the task kinds, the ones with a retry and the ones without first
RequestOrder ==
  <<kGetWeatherInfo, kConnectWiFi, kUpdateTimeFromNtpServer, kStartSetWiFiSoftAP,
    kDisconnectWiFi, kStopSetWiFiSoftAP, kStartLocationInputsLocalServer,
    kStopLocationInputsLocalServer, kFirmwareVersionCheck>>

Requested ==
  {RequestOrder[i] : i \in {j \in 1 .. Len(RequestOrder) : j <= MaxRequested}}

(***************************************************************************)
(* enum ScreenPage and enum Cursor (common.h)                              *)
(***************************************************************************)
kMainPage == 0
kScreensaverPage == 1
kAlarmSetPage == 2
kAlarmTriggeredPage == 3
kTimeSetPage == 4
kSettingsPage == 5
kWiFiSettingsPage == 6
kSoftApInputsPage == 7
kEnterWiFiSsidPage == 8
kEnterWiFiPasswdPage == 9
kWeatherSettingsPage == 10
kLocationInputsPage == 11
kEnterWeatherLocationZipPage == 12
kEnterWeatherLocationCountryCodePage == 13
kFirmwareUpdatePage == 14
kNoPageSelected == 15

ScreenPage == kMainPage .. kNoPageSelected

kCursorNoSelection == 0
kMainPageSettingsWheel == 1
kMainPageSetAlarm == 2
kAlarmSetPageHour == 3
kAlarmSetPageMinute == 4
kAlarmSetPageAmPm == 5
kAlarmSetPageOn == 6
kAlarmSetPageOff == 7
kAlarmSetPageSet == 8
kAlarmSetPageCancel == 9
kSettingsPageWiFi == 10
kSettingsPageWeather == 11
kSettingsPageSet == 12
kSettingsPageScreensaver == 13
kSettingsPageCancel == 14
kWiFiSettingsPageSetSsidPasswd == 15
kWiFiSettingsPageConnect == 16
kWiFiSettingsPageDisconnect == 17
kWiFiSettingsPageCancel == 18
kSoftApInputsPageSave == 19
kSoftApInputsPageCancel == 20
kWeatherSettingsPageSetLocation == 21
kWeatherSettingsPageSetCountryCode == 22
kWeatherSettingsPageUnits == 23
kWeatherSettingsPageFetch == 24
kWeatherSettingsPageUpdateTime == 25
kWeatherSettingsPageCancel == 26
kLocationInputsPageSave == 27
kLocationInputsPageCancel == 28
kCursorMaxValue == 29
kSettingsPageAlarmLongPressSeconds == 30

Cursor == kCursorNoSelection .. kSettingsPageAlarmLongPressSeconds

VARIABLES
  mcu,                                \* build variant
  millis,                             \* millis(), followed where timestamps are compared
  second_core_tasks_queue,            \* std::queue<SecondCoreTask>
  second_core_task_added_flag_array,  \* bool [kNoTask]
  pc0,                                \* position of the primary context
  task,                               \* argument of AddSecondCoreTaskIfNotThere
  ret0,                               \* where the primary context continues after a call
  pc1,                                \* position inside loop1
  loop1_caller,                       \* who runs loop1
  current_task,                       \* loop1 local
  success,                            \* loop1 local
  attempts,                           \* calls of the task's operation in this iteration
  wifi_connected_,                    \* wifi_stuff->wifi_connected_
  got_weather_info_,                  \* wifi_stuff->got_weather_info_
  got_weather_info_time_ms,           \* 0, or millis() at the last weather info
  last_ntp_server_time_update_time_ms,\* 0, or millis() at the last time update
  accepted_not_processed,             \* history: pushes of a kind minus pops for it
  wait_ms,                            \* millis() - time_start of the wait in progress
  wdt_ms,                             \* time since the watchdog was last reset
  rtc_hw_sec_update_,                 \* rtc->rtc_hw_sec_update_, set by the clock pulse
  current_page,                       \* ScreenPage current_page
  highlight,                          \* Cursor highlight
  screensaver_on,                     \* the screensaver canvas exists
  alarm_clock,                        \* the alarm time and the variables of the set screen
  sp_stmts,                           \* statements of SetPage still to run
  sp_page,                            \* history: argument of the last call of SetPage
  sp_target,                          \* history: argument of its innermost call
  sp_from,                            \* history: current_page at the call
  sp_h,                               \* history: highlight at the call
  sp_done,                            \* history: statements the innermost call has run
  inactivity_millis,                  \* elapsedMillis inactivity_millis
  ui_handler,                         \* history: the part of loop() that is running
  ui_input,                           \* history: the input that part is handling
  ui_done,                            \* history: statements that part has run
  ui_page,                            \* history: current_page when that part started
  since_input_ms,                     \* history: time since loop() last routed an input
  rtc,                                \* the clock: its reading and rtc_hw_min_update_
  buzzer,                             \* the buzzer timer, its toggles and the buzzer pin
  episode,                            \* BuzzAlarmFn: its state, its clocks and the button
  preferences,                        \* the key-value store of NvsPreferences
  retrieved,                          \* the values RetrieveAlarmSettings last wrote
  nvs_hist                            \* history: the last call on the store, the last SaveAlarm

queue_vars == <<second_core_tasks_queue, second_core_task_added_flag_array>>
primary_vars == <<pc0, task, ret0>>
loop1_vars == <<pc1, loop1_caller, current_task, success, attempts>>
wifi_vars == <<wifi_connected_, got_weather_info_, got_weather_info_time_ms,
               last_ntp_server_time_update_time_ms>>

hist_vars == <<accepted_not_processed>>
time_vars == <<wait_ms, wdt_ms, rtc_hw_sec_update_>>

ui_vars == <<inactivity_millis, ui_handler, ui_input, ui_done, ui_page, since_input_ms>>

page_vars == <<current_page, highlight, screensaver_on, alarm_clock, sp_stmts, sp_page,
               sp_target, sp_from, sp_h, sp_done, ui_vars>>

alarm_vars == <<rtc, buzzer, episode>>
nvs_vars == <<preferences, retrieved, nvs_hist>>

vars == <<mcu, millis, queue_vars, primary_vars, loop1_vars, wifi_vars, hist_vars, time_vars,
          page_vars, alarm_vars, nvs_vars>>

Range(s) == {s[i] : i \in DOMAIN s}

\* the globals current_page and highlight (588, 591), the alarm of the
\* AlarmClock object, no screensaver canvas, no SetPage in progress
PageInit ==
  /\ current_page = kMainPage
  /\ highlight = kCursorNoSelection
  /\ screensaver_on = FALSE
  /\ alarm_clock = [alarm_hr_ |-> 7, alarm_min_ |-> 0, alarm_is_AM_ |-> TRUE,
                    alarm_ON_ |-> TRUE, var_1_ |-> 7, var_2_ |-> 0,
                    var_3_is_AM_ |-> TRUE, var_4_ON_ |-> TRUE]
  /\ sp_stmts = <<>>
  /\ sp_page = kNoPageSelected
  /\ sp_target = kNoPageSelected
  /\ sp_from = kMainPage
  /\ sp_h = kCursorNoSelection
  /\ sp_done = {}
  /\ inactivity_millis = 0
  /\ ui_handler = "none"
  /\ ui_input = ""
  /\ ui_done = {}
  /\ ui_page = kMainPage
  /\ since_input_ms = 0

\* the buzzer of an AlarmClock object as the class declares it:
\* passive_buzzer_timer_ptr_ = NULL, buzzer_square_wave_toggle_ and
\* beep_toggle_ false; the timer alarm is off and the buzzer pin low
BuzzerOff ==
  [passive_buzzer_timer_ptr_ |-> "NULL", enabled |-> FALSE, pin |-> "LOW",
   buzzer_square_wave_toggle_ |-> FALSE, beep_toggle_ |-> FALSE, allocations |-> 0]

\* BuzzAlarmFn is not running
NoEpisode ==
  [state |-> "Idle", elapsed_ms |-> 0, press_ms |-> 0, total_press_ms |-> 0,
   button |-> FALSE, from |-> "none", started |-> 0]

\* the keys that nvs_preferences.cpp reads and writes
NvsKeys ==
  {"kDataModelVersionKey", "kAlarmHrKey", "kAlarmMinKey", "kAlarmIsAmKey", "kAlarmOnKey",
   "kWiFiSsidKey", "kWiFiPasswdKey", "kWeatherZipCodeKey", "kWeatherCountryCodeKey",
   "kWeatherUnitsMetricNotImperialKey", "kAlarmLongPressSecondsKey", "kFirmwareVersionKey",
   "kCpuSpeedMhzKey", "kScreensaverMotionTypeKey"}

\* a key that was never written
kNoValue == 0 - 1

\* const uint8_t kAlarmEndButtonPressAndHoldSeconds = 25
kAlarmEndButtonPressAndHoldSeconds == 25

\* no function of NvsPreferences has been called
NoNvsCall == [last |-> "none", args |-> <<>>, others |-> FALSE]

\* the AlarmClock object as its class declares it (no buzzer timer, both
\* toggles false), no alarm ringing, the clock at the first of ClockTimes,
\* nothing stored yet under the keys of the alarm
ObjectsInit ==
  /\ rtc = [time |-> 1, year |-> 2024, rtc_hw_min_update_ |-> FALSE, mode_12hour |-> TRUE]
  /\ buzzer = BuzzerOff
  /\ episode = NoEpisode
  /\ preferences = [k \in NvsKeys |-> kNoValue]
  /\ retrieved = <<0, 0, FALSE, FALSE>>
  /\ nvs_hist = NoNvsCall

(***************************************************************************)
(* State after setup(): empty queue, every flag false (setup, 193-195)     *)
(***************************************************************************)
Init ==
  /\ mcu \in {"MCU_IS_RP2040", "MCU_IS_ESP32_S2_MINI"}
  /\ millis = kMillisAfterSetup
  /\ second_core_tasks_queue = <<>>
  /\ second_core_task_added_flag_array = [k \in SecondCoreTask |-> FALSE]
  /\ pc0 = "loop"
  /\ task = kNoTask
  /\ ret0 = "loop"
  /\ pc1 = IF DualCore(mcu) THEN "while" ELSE "return"
  /\ loop1_caller = IF DualCore(mcu) THEN "core1" ELSE "none"
  /\ current_task = kNoTask
  /\ success = FALSE
  /\ attempts = 0
  /\ wifi_connected_ = FALSE
  /\ got_weather_info_ = FALSE
  /\ got_weather_info_time_ms = 0
  /\ last_ntp_server_time_update_time_ms = 0
  /\ accepted_not_processed = [k \in SecondCoreTask |-> 0]
  /\ wait_ms = 0
  /\ wdt_ms = 0
  /\ rtc_hw_sec_update_ = FALSE
  /\ PageInit
  /\ ObjectsInit

(***************************************************************************)
(* AddSecondCoreTaskIfNotThere(task), one step per statement               *)
(***************************************************************************)
\* the primary context calls AddSecondCoreTaskIfNotThere(k)
AddCall(k) ==
  /\ pc0 = "loop"
  /\ Len(second_core_tasks_queue) < MaxQueue
  /\ pc0' = "add_if"
  /\ task' = k
  /\ ret0' = "loop"
  /\ UNCHANGED <<mcu, millis, alarm_vars, nvs_vars, queue_vars, loop1_vars, wifi_vars, hist_vars, time_vars, page_vars>>

\* AddIf without the test of the flag
AddIf_NoTest ==
  /\ pc0 = "add_if"
  /\ pc0' = "add_push"
  /\ UNCHANGED <<mcu, millis, alarm_vars, nvs_vars, task, ret0, queue_vars, loop1_vars, wifi_vars, hist_vars,
                 time_vars, page_vars>>

\* if(!second_core_task_added_flag_array[task])
AddIf ==
  /\ pc0 = "add_if"
  /\ IF second_core_task_added_flag_array[task]
       THEN pc0' = ret0 /\ task' = kNoTask
       ELSE pc0' = "add_push" /\ task' = task
  /\ UNCHANGED <<mcu, millis, alarm_vars, nvs_vars, ret0, queue_vars, loop1_vars, wifi_vars, hist_vars, time_vars,
                 page_vars>>

\* second_core_tasks_queue.push(task);
AddPush ==
  /\ pc0 = "add_push"
  /\ second_core_tasks_queue' = Append(second_core_tasks_queue, task)
  /\ pc0' = "add_set"
  /\ accepted_not_processed' =
       [accepted_not_processed EXCEPT ![task] = accepted_not_processed[task] + 1]
  /\ UNCHANGED <<mcu, millis, alarm_vars, nvs_vars, second_core_task_added_flag_array, task, ret0, loop1_vars, wifi_vars,
                 time_vars, page_vars>>

\* second_core_task_added_flag_array[task] = true;
AddSet ==
  /\ pc0 = "add_set"
  /\ second_core_task_added_flag_array' =
       [second_core_task_added_flag_array EXCEPT ![task] = TRUE]
  /\ pc0' = ret0
  /\ task' = kNoTask
  /\ UNCHANGED <<mcu, millis, alarm_vars, nvs_vars, ret0, second_core_tasks_queue, loop1_vars, wifi_vars, hist_vars,
                 time_vars, page_vars>>

(***************************************************************************)
(* WaitForExecutionOfSecondCoreTask                                        *)
(***************************************************************************)
\* the statement of the caller that follows the call
AfterWait(pc) ==
  CASE pc = "input_wait" -> "loop_second"
    [] pc = "second_wait" -> "loop_minute"
    [] pc = "ui_wait" -> "ui"
    [] OTHER -> "loop"

\* the call: loop1() on the single core build, time_start = millis() on the others
WaitCall ==
  /\ pc0 \in {"loop", "input_wait", "second_wait", "ui_wait"}
  /\ ret0' = AfterWait(pc0)
  /\ wait_ms' = 0
  /\ IF DualCore(mcu)
       THEN pc0' = "wait" /\ UNCHANGED loop1_vars
       ELSE /\ pc0' = "loop1"
            /\ pc1' = "while"
            /\ loop1_caller' = "WaitForExecutionOfSecondCoreTask"
            /\ UNCHANGED <<current_task, success, attempts>>
  /\ UNCHANGED <<mcu, millis, alarm_vars, nvs_vars, queue_vars, task, wifi_vars, hist_vars, wdt_ms, rtc_hw_sec_update_,
                 page_vars>>

\* WaitReturn dropping the pending tasks when it gives up
WaitReturn_Drops ==
  /\ pc0 = "wait"
  /\ pc0' = ret0
  /\ second_core_tasks_queue' = <<>>
  /\ accepted_not_processed' = [k \in SecondCoreTask |-> 0]
  /\ UNCHANGED <<mcu, millis, alarm_vars, nvs_vars, second_core_task_added_flag_array, task, ret0, loop1_vars, wifi_vars,
                 time_vars, page_vars>>

\* the poll loop with the clock left out: it is left when the queue is
\* empty or when the timeout has elapsed
WaitReturn ==
  /\ pc0 = "wait"
  /\ \E timed_out \in BOOLEAN :
       second_core_tasks_queue = <<>> \/ timed_out
  /\ pc0' = ret0
  /\ UNCHANGED <<mcu, millis, alarm_vars, nvs_vars, queue_vars, task, ret0, loop1_vars, wifi_vars, hist_vars,
                 time_vars, page_vars>>

\* loop(), 478-481: the single core build runs loop1 at the end of loop()
LoopCallsLoop1 ==
  /\ pc0 \in {"loop", "loop_end", "ui"}
  /\ sp_stmts = <<>>
  /\ ~DualCore(mcu)
  /\ pc0' = "loop1"
  /\ ret0' = IF pc0 = "loop_end" THEN "loop_top" ELSE pc0
  /\ pc1' = "while"
  /\ loop1_caller' = "loop"
  /\ UNCHANGED <<mcu, millis, alarm_vars, nvs_vars, queue_vars, task, current_task, success, attempts, wifi_vars,
                 hist_vars, time_vars, page_vars>>

(***************************************************************************)
(* loop1, one step per statement                                           *)
(***************************************************************************)
Loop1Runs == DualCore(mcu) \/ pc0 = "loop1"

\* while (!second_core_tasks_queue.empty()) { current_task = front(); success = false;
Loop1While ==
  /\ Loop1Runs
  /\ pc1 = "while"
  /\ IF second_core_tasks_queue # <<>>
       THEN /\ current_task' = Head(second_core_tasks_queue)
            /\ success' = FALSE
            /\ attempts' = 0
            /\ pc1' = "dispatch"
       ELSE /\ pc1' = "wifi_off"
            /\ UNCHANGED <<current_task, success, attempts>>
  /\ UNCHANGED <<mcu, millis, alarm_vars, nvs_vars, queue_vars, primary_vars, loop1_caller, wifi_vars, hist_vars,
                 time_vars, page_vars>>

\* AfterFirstFetch without the retry
AfterFirstFetch_NoRetry(result) == "pop"

\* if(!success) { delay(1000); ... } after the first call of a fetch
AfterFirstFetch(result) == IF result THEN "pop" ELSE "retry"

\* the if / else-if chain over current_task: first call of the operation
Loop1DispatchWith(older_than_limit) ==
  /\ Loop1Runs
  /\ pc1 = "dispatch"
  /\ \E result \in BOOLEAN :
       IF /\ current_task = kGetWeatherInfo
          /\ (~got_weather_info_ \/ got_weather_info_time_ms = 0 \/ older_than_limit)
         THEN \* wifi_stuff->GetTodaysWeatherInfo(); success = got_weather_info_
              /\ got_weather_info_' = result
              /\ got_weather_info_time_ms' =
                   IF result THEN millis ELSE got_weather_info_time_ms
              /\ success' = result
              /\ attempts' = 1
              /\ pc1' = AfterFirstFetch(result)
              /\ UNCHANGED <<wifi_connected_, last_ntp_server_time_update_time_ms>>
       ELSE IF /\ current_task = kUpdateTimeFromNtpServer
               /\ (last_ntp_server_time_update_time_ms = 0 \/ older_than_limit)
         THEN \* success = wifi_stuff->GetTimeFromNtpServer()
              /\ last_ntp_server_time_update_time_ms' =
                   IF result THEN millis ELSE last_ntp_server_time_update_time_ms
              /\ success' = result
              /\ attempts' = 1
              /\ pc1' = AfterFirstFetch(result)
              /\ UNCHANGED <<wifi_connected_, got_weather_info_, got_weather_info_time_ms>>
       ELSE IF current_task = kConnectWiFi
         THEN \* wifi_stuff->TurnWiFiOn(); success = wifi_connected_
              /\ wifi_connected_' = result
              /\ success' = result
              /\ attempts' = 1
              /\ pc1' = "pop"
              /\ UNCHANGED <<got_weather_info_, got_weather_info_time_ms,
                             last_ntp_server_time_update_time_ms>>
       ELSE IF current_task = kDisconnectWiFi
         THEN \* wifi_stuff->TurnWiFiOff(); success = !wifi_connected_
              /\ wifi_connected_' = ~result
              /\ success' = result
              /\ attempts' = 1
              /\ pc1' = "pop"
              /\ UNCHANGED <<got_weather_info_, got_weather_info_time_ms,
                             last_ntp_server_time_update_time_ms>>
       ELSE IF current_task \in {kStartSetWiFiSoftAP, kStopSetWiFiSoftAP,
                                 kStartLocationInputsLocalServer,
                                 kStopLocationInputsLocalServer}
         THEN \* start / stop of a local server; success = true
              /\ success' = TRUE
              /\ attempts' = 1
              /\ pc1' = "pop"
              /\ UNCHANGED wifi_vars
         ELSE \* no branch taken
              /\ pc1' = "pop"
              /\ UNCHANGED <<success, attempts, wifi_vars>>
  /\ UNCHANGED <<mcu, millis, alarm_vars, nvs_vars, queue_vars, primary_vars, loop1_caller, current_task, hist_vars,
                 time_vars, page_vars>>

\* millis() - timestamp, in unsigned long: the difference is the time since
\* the timestamp also across the wrap of millis(), which is not followed
Age(timestamp) == millis - timestamp

\* the comparisons of 501 and 513 with the limit of one kind for both
OlderThanLimit_OneLimit(k) ==
  IF k = kGetWeatherInfo
    THEN Age(got_weather_info_time_ms) > 60 * 1000
    ELSE Age(last_ntp_server_time_update_time_ms) > 60 * 1000

\* loop1, 501 and 513: millis() - timestamp > 60*1000 for the weather info,
\* > 10*1000 for the time update
OlderThanLimit(k) ==
  IF k = kGetWeatherInfo
    THEN Age(got_weather_info_time_ms) > 60 * 1000
    ELSE Age(last_ntp_server_time_update_time_ms) > 10 * 1000

\* the dispatch with the ages left open: millis() is not followed
Loop1Dispatch == \E older_than_limit \in BOOLEAN : Loop1DispatchWith(older_than_limit)

\* the dispatch with the ages read off millis()
TimedLoop1Dispatch == Loop1DispatchWith(OlderThanLimit(current_task))

\* if(!success) { delay(1000); second call of the operation }
Loop1Retry ==
  /\ Loop1Runs
  /\ pc1 = "retry"
  /\ \E result \in BOOLEAN :
       /\ success' = result
       /\ IF current_task = kGetWeatherInfo
            THEN /\ got_weather_info_' = result
                 /\ got_weather_info_time_ms' =
                      IF result THEN millis ELSE got_weather_info_time_ms
                 /\ UNCHANGED last_ntp_server_time_update_time_ms
            ELSE /\ last_ntp_server_time_update_time_ms' =
                      IF result THEN millis ELSE last_ntp_server_time_update_time_ms
                 /\ UNCHANGED <<got_weather_info_, got_weather_info_time_ms>>
  /\ attempts' = attempts + 1
  /\ pc1' = "pop"
  /\ UNCHANGED <<mcu, millis, alarm_vars, nvs_vars, queue_vars, primary_vars, loop1_caller, current_task, wifi_connected_,
                 hist_vars, time_vars, page_vars>>

\* Loop1Pop clearing the flag in place of the pop
Loop1Pop_ClearsFirst ==
  /\ Loop1Runs
  /\ pc1 = "pop"
  /\ second_core_task_added_flag_array' =
       [second_core_task_added_flag_array EXCEPT ![current_task] = FALSE]
  /\ pc1' = "clear"
  /\ UNCHANGED <<mcu, millis, alarm_vars, nvs_vars, second_core_tasks_queue, primary_vars, loop1_caller,
                 current_task, success, attempts, wifi_vars, hist_vars, time_vars, page_vars>>

\* Loop1Pop leaving the task in the queue
Loop1Pop_NoPop ==
  /\ Loop1Runs
  /\ pc1 = "pop"
  /\ pc1' = "clear"
  /\ accepted_not_processed' =
       [accepted_not_processed EXCEPT ![current_task] = accepted_not_processed[current_task] - 1]
  /\ UNCHANGED <<mcu, millis, alarm_vars, nvs_vars, queue_vars, primary_vars, loop1_caller,
                 current_task, success, attempts, wifi_vars, time_vars, page_vars>>

\* second_core_tasks_queue.pop();
Loop1Pop ==
  /\ Loop1Runs
  /\ pc1 = "pop"
  /\ second_core_tasks_queue' = Tail(second_core_tasks_queue)
  /\ pc1' = "clear"
  /\ accepted_not_processed' =
       [accepted_not_processed EXCEPT ![current_task] = accepted_not_processed[current_task] - 1]
  /\ UNCHANGED <<mcu, millis, alarm_vars, nvs_vars, second_core_task_added_flag_array, primary_vars, loop1_caller,
                 current_task, success, attempts, wifi_vars, time_vars, page_vars>>

\* delay(1); second_core_task_added_flag_array[current_task] = false; }
\* the locals of the loop body end with the iteration
Loop1Clear ==
  /\ Loop1Runs
  /\ pc1 = "clear"
  /\ second_core_task_added_flag_array' =
       [second_core_task_added_flag_array EXCEPT ![current_task] = FALSE]
  /\ pc1' = "while"
  /\ current_task' = kNoTask
  /\ success' = FALSE
  /\ attempts' = 0
  /\ UNCHANGED <<mcu, millis, alarm_vars, nvs_vars, second_core_tasks_queue, primary_vars, loop1_caller, wifi_vars,
                 hist_vars, time_vars, page_vars>>

\* if(wifi_connected_ && inactivity_millis >= kInactivityMillisLimit) TurnWiFiOff();
\* then loop1 returns: to its caller on the single core build, and the
\* second context calls it again on the dual core builds
Loop1WiFiOff ==
  /\ Loop1Runs
  /\ pc1 = "wifi_off"
  /\ \E inactive \in BOOLEAN, result \in BOOLEAN :
       wifi_connected_' = IF wifi_connected_ /\ inactive THEN ~result ELSE wifi_connected_
  /\ IF DualCore(mcu)
       THEN pc1' = "while" /\ UNCHANGED <<pc0, loop1_caller>>
       ELSE pc1' = "return" /\ pc0' = ret0 /\ loop1_caller' = "none"
  /\ UNCHANGED <<mcu, millis, alarm_vars, nvs_vars, queue_vars, task, ret0, current_task, success, attempts,
                 got_weather_info_, got_weather_info_time_ms,
                 last_ntp_server_time_update_time_ms, hist_vars, time_vars, page_vars>>

Loop1Step ==
  \/ Loop1While
  \/ Loop1Dispatch
  \/ Loop1Retry
  \/ Loop1Pop
  \/ Loop1Clear
  \/ Loop1WiFiOff

PrimaryStep ==
  \/ \E k \in Requested : AddCall(k)
  \/ AddIf
  \/ AddPush
  \/ AddSet
  \/ WaitCall
  \/ WaitReturn
  \/ LoopCallsLoop1

Next == PrimaryStep \/ Loop1Step

\* the readings of millis() that are followed: one millisecond and 10 s
\* after setup, one millisecond more, and the same around 60 s
Instants == {1, 10001, 10002, 60001, 60002}

\* time passes
MillisTick ==
  /\ \E t \in Instants : t > millis /\ millis' = t
  /\ UNCHANGED <<mcu, queue_vars, primary_vars, loop1_vars, wifi_vars, hist_vars, time_vars,
                 page_vars, alarm_vars, nvs_vars>>

\* the task queue with the timestamps of the fetches compared to millis()
FreshNext ==
  \/ PrimaryStep
  \/ Loop1While
  \/ TimedLoop1Dispatch
  \/ Loop1Retry
  \/ Loop1Pop
  \/ Loop1Clear
  \/ Loop1WiFiOff
  \/ MillisTick

FreshSpec == Init /\ [][FreshNext]_vars

Spec == Init /\ [][Next]_vars

\* The second context calls loop1 for ever (Task1code, the core1 run time),
\* a started AddSecondCoreTaskIfNotThere or wait runs on, and every pass of
\* loop() on the single core build ends in its call of loop1.
Fairness ==
  /\ WF_vars(Loop1Step)
  /\ WF_vars(AddIf \/ AddPush \/ AddSet \/ WaitReturn)
  /\ SF_vars(LoopCallsLoop1)

FairSpec == Spec /\ Fairness

(***************************************************************************)
(* loop() with the watchdog and the clock of the wait                      *)
(*                                                                         *)
(* wdt_ms counts the time that has passed for certain since the watchdog   *)
(* was last reset: the polls of the wait, and on the single core build the *)
(* operations that loop1 runs inside loop().  The rest of loop() is taken  *)
(* to cost no time, so the real time is never less than wdt_ms.            *)
(***************************************************************************)
\* polls folded into one step of WaitPoll
PollsPerStep == 265

\* time that passes in one step of an operation of loop1
OperationStepMs == 2500

\* how many of the kinds of TickOrder loop() asks for
MaxTickRequested == 2

TickOrder ==
  <<kUpdateTimeFromNtpServer, kConnectWiFi, kGetWeatherInfo, kDisconnectWiFi,
    kStartSetWiFiSoftAP, kStopSetWiFiSoftAP, kStartLocationInputsLocalServer,
    kStopLocationInputsLocalServer>>

TickRequested ==
  {TickOrder[i] : i \in {j \in 1 .. Len(TickOrder) : j <= MaxTickRequested}}

\* const unsigned long kWatchdogTimeoutMs
kWatchdogTimeoutMs(m) == IF m = "MCU_IS_RP2040" THEN 8300 ELSE 10000

\* delay(10) of the poll loop
kPollDelayMs == 10

\* the wait that never gives up
WaitTimedOut_Never(m, elapsed) == FALSE

\* the negation of millis() - time_start < kWatchdogTimeoutMs - 3000
WaitTimedOut(m, elapsed) == ~(elapsed < kWatchdogTimeoutMs(m) - 3000)

\* millis() - time_start after up to n more polls that find the queue
\* non-empty: the loop stops at the first poll that finds the time out
PollBurst(m, elapsed, n) ==
  LET stops == {i \in 0 .. n : i = n \/ WaitTimedOut(m, elapsed + i * kPollDelayMs)}
      first == CHOOSE i \in stops : \A j \in stops : i <= j
  IN  elapsed + first * kPollDelayMs

\* where the primary context is after a step that takes the time since the
\* last reset of the watchdog to sofar: the watchdog stops it past the timeout
Watched(m, sofar, pc) == IF sofar > kWatchdogTimeoutMs(m) THEN "watchdog" ELSE pc

WdtInit ==
  /\ mcu \in McuVariants
  /\ millis = kMillisAfterSetup
  /\ second_core_tasks_queue = <<>>
  /\ second_core_task_added_flag_array = [k \in SecondCoreTask |-> FALSE]
  /\ pc0 = "loop_top"
  /\ task = kNoTask
  /\ ret0 = "loop_top"
  /\ pc1 = IF DualCore(mcu) THEN "while" ELSE "return"
  /\ loop1_caller = IF DualCore(mcu) THEN "core1" ELSE "none"
  /\ current_task = kNoTask
  /\ success = FALSE
  /\ attempts = 0
  /\ wifi_connected_ = FALSE
  /\ got_weather_info_ = FALSE
  /\ got_weather_info_time_ms = 0
  /\ last_ntp_server_time_update_time_ms = 0
  /\ accepted_not_processed = [k \in SecondCoreTask |-> 0]
  /\ wait_ms = 0
  /\ wdt_ms = 0
  /\ rtc_hw_sec_update_ = FALSE
  /\ PageInit
  /\ ObjectsInit

\* the once per second pulse of the clock chip sets the flag that loop() polls
sqwPinInterruptFn ==
  /\ ~rtc_hw_sec_update_
  /\ rtc_hw_sec_update_' = TRUE
  /\ UNCHANGED <<mcu, millis, alarm_vars, nvs_vars, queue_vars, primary_vars, loop1_vars, wifi_vars, hist_vars,
                 wait_ms, wdt_ms, page_vars>>

\* loop(), 212-378: the input handler; a confirmed action that needs the
\* second context enqueues its task and waits for it
LoopInput ==
  /\ pc0 = "loop_top"
  /\ \E k \in TickRequested \cup {kNoTask} :
       IF k = kNoTask
         THEN pc0' = "loop_second" /\ UNCHANGED <<task, ret0>>
         ELSE /\ Len(second_core_tasks_queue) < MaxQueue
              /\ pc0' = "add_if"
              /\ task' = k
              /\ ret0' = "input_wait"
  /\ UNCHANGED <<mcu, millis, alarm_vars, nvs_vars, queue_vars, loop1_vars, wifi_vars, hist_vars, time_vars, page_vars>>

\* the per-second block that leaves the flag as the clock pulse set it
LoopSecond_NoClear ==
  /\ pc0 = "loop_second"
  /\ IF rtc_hw_sec_update_
       THEN \E time_lost \in BOOLEAN :
              IF time_lost
                THEN /\ Len(second_core_tasks_queue) < MaxQueue
                     /\ pc0' = "add_if"
                     /\ task' = kUpdateTimeFromNtpServer
                     /\ ret0' = "second_wait"
                ELSE pc0' = "loop_minute" /\ UNCHANGED <<task, ret0>>
       ELSE pc0' = "loop_end" /\ UNCHANGED <<task, ret0>>
  /\ UNCHANGED <<mcu, millis, alarm_vars, nvs_vars, queue_vars, loop1_vars, wifi_vars, hist_vars,
                 time_vars, page_vars>>

\* loop(), 386-396: if (rtc->rtc_hw_sec_update_) { rtc->rtc_hw_sec_update_ = false;
\* if(rtc->year() < 2024 && !incorrect_wifi_details_) enqueue the time update and wait
LoopSecond ==
  /\ pc0 = "loop_second"
  /\ IF rtc_hw_sec_update_
       THEN /\ rtc_hw_sec_update_' = FALSE
            /\ \E time_lost \in BOOLEAN :
                 IF time_lost
                   THEN /\ Len(second_core_tasks_queue) < MaxQueue
                        /\ pc0' = "add_if"
                        /\ task' = kUpdateTimeFromNtpServer
                        /\ ret0' = "second_wait"
                   ELSE pc0' = "loop_minute" /\ UNCHANGED <<task, ret0>>
       ELSE pc0' = "loop_end" /\ UNCHANGED <<task, ret0, rtc_hw_sec_update_>>
  /\ UNCHANGED <<mcu, millis, alarm_vars, nvs_vars, queue_vars, loop1_vars, wifi_vars, hist_vars, wait_ms, wdt_ms,
                 page_vars>>

\* loop(), 398-464: the enqueues of the minute block and of the inactivity
\* check, none of them followed by a wait
LoopMinute ==
  /\ pc0 = "loop_minute"
  /\ \E k \in ({kGetWeatherInfo, kUpdateTimeFromNtpServer} \cap TickRequested) \cup {kNoTask} :
       IF k = kNoTask
         THEN pc0' = "loop_reset" /\ UNCHANGED <<task, ret0>>
         ELSE /\ Len(second_core_tasks_queue) < MaxQueue
              /\ pc0' = "add_if"
              /\ task' = k
              /\ ret0' = "loop_reset"
  /\ UNCHANGED <<mcu, millis, alarm_vars, nvs_vars, queue_vars, loop1_vars, wifi_vars, hist_vars, time_vars, page_vars>>

\* loop(), 467: ResetWatchdog(); the last statement of the per-second block
ResetWatchdog ==
  /\ pc0 = "loop_reset"
  /\ wdt_ms' = 0
  /\ pc0' = "loop_end"
  /\ UNCHANGED <<mcu, millis, alarm_vars, nvs_vars, queue_vars, task, ret0, loop1_vars, wifi_vars, hist_vars,
                 wait_ms, rtc_hw_sec_update_, page_vars>>

\* loop() returns and is called again (the single core build first runs
\* loop1, LoopCallsLoop1)
LoopReturns ==
  /\ pc0 = "loop_end"
  /\ DualCore(mcu)
  /\ pc0' = "loop_top"
  /\ UNCHANGED <<mcu, millis, alarm_vars, nvs_vars, queue_vars, task, ret0, loop1_vars, wifi_vars, hist_vars,
                 time_vars, page_vars>>

\* while (!queue.empty() && millis() - time_start < kWatchdogTimeoutMs - 3000) delay(10);
\* the test succeeds and up to PollsPerStep polls pass
WaitPoll ==
  /\ pc0 = "wait"
  /\ second_core_tasks_queue # <<>>
  /\ ~WaitTimedOut(mcu, wait_ms)
  /\ wait_ms' = PollBurst(mcu, wait_ms + kPollDelayMs, PollsPerStep - 1)
  /\ wdt_ms' = wdt_ms + (wait_ms' - wait_ms)
  /\ pc0' = Watched(mcu, wdt_ms', pc0)
  /\ UNCHANGED <<mcu, millis, alarm_vars, nvs_vars, queue_vars, task, ret0, loop1_vars, wifi_vars, hist_vars,
                 rtc_hw_sec_update_, page_vars>>

\* the test of the while fails and the wait returns
WaitExit ==
  /\ pc0 = "wait"
  /\ second_core_tasks_queue = <<>> \/ WaitTimedOut(mcu, wait_ms)
  /\ pc0' = ret0
  /\ wait_ms' = 0
  /\ UNCHANGED <<mcu, millis, alarm_vars, nvs_vars, queue_vars, task, ret0, loop1_vars, wifi_vars, hist_vars,
                 wdt_ms, rtc_hw_sec_update_, page_vars>>

\* on the single core build the operation that loop1 has called, and the
\* delay(1000) before its retry, run in the primary context
OperationTakesTime ==
  /\ ~DualCore(mcu)
  /\ pc0 = "loop1"
  /\ pc1 \in {"retry", "pop"}
  /\ attempts > 0
  /\ wdt_ms' = wdt_ms + OperationStepMs
  /\ wait_ms' = IF loop1_caller = "WaitForExecutionOfSecondCoreTask"
                  THEN wait_ms + OperationStepMs
                  ELSE wait_ms
  /\ pc0' = Watched(mcu, wdt_ms', pc0)
  /\ UNCHANGED <<mcu, millis, alarm_vars, nvs_vars, queue_vars, task, ret0, loop1_vars, wifi_vars, hist_vars,
                 rtc_hw_sec_update_, page_vars>>

\* rp2040.wdt_begin(kWatchdogTimeoutMs) / esp_task_wdt_init(.., true): the
\* watchdog restarts the program
WatchdogReboot ==
  /\ pc0 = "watchdog"
  /\ mcu' = mcu
  /\ millis' = kMillisAfterSetup
  /\ second_core_tasks_queue' = <<>>
  /\ second_core_task_added_flag_array' = [k \in SecondCoreTask |-> FALSE]
  /\ pc0' = "loop_top"
  /\ task' = kNoTask
  /\ ret0' = "loop_top"
  /\ pc1' = IF DualCore(mcu) THEN "while" ELSE "return"
  /\ loop1_caller' = IF DualCore(mcu) THEN "core1" ELSE "none"
  /\ current_task' = kNoTask
  /\ success' = FALSE
  /\ attempts' = 0
  /\ wifi_connected_' = FALSE
  /\ got_weather_info_' = FALSE
  /\ got_weather_info_time_ms' = 0
  /\ last_ntp_server_time_update_time_ms' = 0
  /\ accepted_not_processed' = [k \in SecondCoreTask |-> 0]
  /\ wait_ms' = 0
  /\ wdt_ms' = 0
  /\ rtc_hw_sec_update_' = FALSE
  /\ current_page' = kMainPage
  /\ highlight' = kCursorNoSelection
  /\ screensaver_on' = FALSE
  /\ sp_stmts' = <<>>
  /\ inactivity_millis' = 0
  /\ UNCHANGED <<alarm_clock, sp_page, sp_target, sp_from, sp_h, sp_done, ui_handler,
                 ui_input, ui_done, ui_page, since_input_ms, alarm_vars, nvs_vars>>

WdtPrimaryStep ==
  \/ LoopInput
  \/ AddIf
  \/ AddPush
  \/ AddSet
  \/ WaitCall
  \/ WaitPoll
  \/ WaitExit
  \/ LoopSecond
  \/ LoopMinute
  \/ ResetWatchdog
  \/ LoopReturns
  \/ LoopCallsLoop1
  \/ OperationTakesTime

WdtNext == WdtPrimaryStep \/ Loop1Step \/ sqwPinInterruptFn \/ WatchdogReboot

WdtSpec == WdtInit /\ [][WdtNext]_vars

\* loop() and loop1 run on, and an expired watchdog restarts the program
WdtFairness ==
  /\ WF_vars(WdtPrimaryStep)
  /\ WF_vars(Loop1Step)
  /\ WF_vars(WatchdogReboot)

WdtFairSpec == WdtSpec /\ WdtFairness

(***************************************************************************)
(* SetPage and MoveCursor                                                  *)
(*                                                                         *)
(* SetPage runs statement by statement: sp_stmts holds what the call in    *)
(* progress has still to run, a nested call of SetPage puts its body in    *)
(* front.  Calls into the display object change nothing here except        *)
(* ScreensaverControl, which creates and frees the screensaver canvas.     *)
(***************************************************************************)
Stmt(op, arg) == [op |-> op, arg |-> arg]

\* the body of SetPage(page) with current_page = cur at the call: the case
\* of the switch, then InstantHighlightResponse(kCursorNoSelection)
SetPageBody(page, cur) ==
  (CASE page = kMainPage ->
          (IF cur = kScreensaverPage
             THEN <<Stmt("ScreensaverControl(false)", 0)>>
             ELSE <<>>)
          \o <<Stmt("current_page", kMainPage),
               Stmt("highlight", kCursorNoSelection),
               Stmt("DisplayTimeUpdate", 0)>>
     [] page = kScreensaverPage ->
          <<Stmt("current_page", kScreensaverPage),
            Stmt("ScreensaverControl(true)", 0),
            Stmt("highlight", kCursorNoSelection)>>
     [] page = kAlarmSetPage ->
          <<Stmt("current_page", kAlarmSetPage),
            Stmt("highlight", kAlarmSetPageHour),
            Stmt("var_1_ = alarm_hr_ ...", 0),
            Stmt("SetAlarmScreen", 0)>>
     [] page = kAlarmTriggeredPage ->
          <<Stmt("current_page", kAlarmTriggeredPage),
            Stmt("AlarmTriggeredScreen", 0),
            Stmt("SetMaxBrightness", 0)>>
     [] page = kSettingsPage ->
          <<Stmt("current_page", kSettingsPage),
            Stmt("highlight", kSettingsPageWiFi),
            Stmt("SettingsPage", 0),
            Stmt("SetMaxBrightness", 0)>>
     [] page = kWiFiSettingsPage ->
          <<Stmt("current_page", kWiFiSettingsPage),
            Stmt("highlight", kWiFiSettingsPageConnect),
            Stmt("WiFiSettingsPage", 0),
            Stmt("SetMaxBrightness", 0)>>
     [] page = kSoftApInputsPage ->
          <<Stmt("current_page", kSoftApInputsPage),
            Stmt("highlight", kSoftApInputsPageSave),
            Stmt("SoftApInputsPage", 0),
            Stmt("SetMaxBrightness", 0)>>
     [] page \in {kEnterWiFiSsidPage, kEnterWiFiPasswdPage} ->
          <<Stmt("current_page", kWiFiSettingsPage),
            Stmt("SetMaxBrightness", 0),
            Stmt("GetUserOnScreenTextInput", 0),
            Stmt("SetPage", kWiFiSettingsPage)>>
     [] page = kWeatherSettingsPage ->
          <<Stmt("current_page", kWeatherSettingsPage),
            Stmt("highlight", kWeatherSettingsPageFetch),
            Stmt("WeatherSettingsPage", 0),
            Stmt("SetMaxBrightness", 0)>>
     [] page = kLocationInputsPage ->
          <<Stmt("current_page", kLocationInputsPage),
            Stmt("highlight", kLocationInputsPageSave),
            Stmt("LocationInputsLocalServerPage", 0),
            Stmt("SetMaxBrightness", 0)>>
     [] page \in {kEnterWeatherLocationZipPage, kEnterWeatherLocationCountryCodePage} ->
          <<Stmt("current_page", kWeatherSettingsPage),
            Stmt("SetMaxBrightness", 0),
            Stmt("GetUserOnScreenTextInput", 0),
            Stmt("SetPage", kWeatherSettingsPage)>>
     [] OTHER -> <<>>)
  \o <<Stmt("InstantHighlightResponse", 0)>>

\* current_page after a statement that leaves it alone whatever it is
CurrentPageAfter_Stale(stmt, page) == page

\* current_page after a statement of SetPage
CurrentPageAfter(stmt, page) == IF stmt.op = "current_page" THEN stmt.arg ELSE page

\* highlight after a statement that leaves it alone whatever it is
HighlightAfter_Stale(stmt, h) == h

\* highlight after a statement of SetPage
HighlightAfter(stmt, h) == IF stmt.op = "highlight" THEN stmt.arg ELSE h

\* the screensaver canvas after a statement of SetPage
ScreensaverAfter(stmt, on) ==
  CASE stmt.op = "ScreensaverControl(true)" -> TRUE
    [] stmt.op = "ScreensaverControl(false)" -> FALSE
    [] OTHER -> on

\* SetPage(kAlarmSetPage) that takes the alarm from the set screen
AlarmClockAfter_CopiesBack(stmt, ac) ==
  IF stmt.op = "var_1_ = alarm_hr_ ..."
    THEN [ac EXCEPT !.alarm_hr_ = ac.var_1_, !.alarm_min_ = ac.var_2_,
                    !.alarm_is_AM_ = ac.var_3_is_AM_, !.alarm_ON_ = ac.var_4_ON_]
    ELSE ac

\* SetPage(kAlarmSetPage) that copies the time and leaves the switch
AlarmClockAfter_TimeOnly(stmt, ac) ==
  IF stmt.op = "var_1_ = alarm_hr_ ..."
    THEN [ac EXCEPT !.var_1_ = ac.alarm_hr_, !.var_2_ = ac.alarm_min_,
                    !.var_3_is_AM_ = ac.alarm_is_AM_]
    ELSE ac

\* the AlarmClock object after a statement of SetPage
AlarmClockAfter(stmt, ac) ==
  IF stmt.op = "var_1_ = alarm_hr_ ..."
    THEN [ac EXCEPT !.var_1_ = ac.alarm_hr_, !.var_2_ = ac.alarm_min_,
                    !.var_3_is_AM_ = ac.alarm_is_AM_, !.var_4_ON_ = ac.alarm_ON_]
    ELSE ac

\* a caller calls SetPage(page)
SetPageCall(page) ==
  /\ sp_stmts = <<>>
  /\ sp_stmts' = SetPageBody(page, current_page)
  /\ sp_page' = page
  /\ sp_target' = page
  /\ sp_from' = current_page
  /\ sp_h' = highlight
  /\ sp_done' = {}
  /\ UNCHANGED <<mcu, millis, alarm_vars, nvs_vars, queue_vars, primary_vars, loop1_vars, wifi_vars, hist_vars, time_vars,
                 current_page, highlight, screensaver_on, alarm_clock, ui_vars>>

\* the next statement of SetPage; with the last one the call returns
SetPageStmt ==
  /\ sp_stmts # <<>>
  /\ LET stmt == Head(sp_stmts) IN
       /\ current_page' = CurrentPageAfter(stmt, current_page)
       /\ highlight' = HighlightAfter(stmt, highlight)
       /\ screensaver_on' = ScreensaverAfter(stmt, screensaver_on)
       /\ alarm_clock' = AlarmClockAfter(stmt, alarm_clock)
       /\ IF stmt.op = "SetPage"
            THEN /\ sp_stmts' = SetPageBody(stmt.arg, current_page) \o Tail(sp_stmts)
                 /\ sp_target' = stmt.arg
                 /\ sp_done' = {}
            ELSE /\ sp_stmts' = Tail(sp_stmts)
                 /\ sp_target' = sp_target
                 /\ sp_done' = sp_done \cup {stmt.op}
  /\ UNCHANGED <<mcu, millis, alarm_vars, nvs_vars, queue_vars, primary_vars, loop1_vars, wifi_vars, hist_vars, time_vars,
                 sp_page, sp_from, sp_h, ui_vars>>

\* Cursor operator++ (int)
Increment(h) == IF h < kCursorMaxValue - 1 THEN h + 1 ELSE kCursorNoSelection

\* operator-- with a test of the upper end like that of operator++
Decrement_Guarded(h) ==
  IF h > kCursorNoSelection /\ h <= kCursorMaxValue THEN h - 1 ELSE kCursorMaxValue - 1

\* Cursor operator-- (int)
Decrement(h) == IF h > kCursorNoSelection THEN h - 1 ELSE kCursorMaxValue - 1

\* highlight++ on a Cursor variable: the variable and the value returned are
\* the new value
PostfixIncrement ==
  /\ highlight' = Increment(highlight)
  /\ sp_h' = highlight
  /\ ui_input' = "++"
  /\ UNCHANGED <<mcu, millis, alarm_vars, nvs_vars, queue_vars, primary_vars, loop1_vars, wifi_vars, hist_vars, time_vars,
                 current_page, screensaver_on, alarm_clock, sp_stmts, sp_page, sp_target,
                 sp_from, sp_done, inactivity_millis, ui_handler, ui_done, ui_page,
                 since_input_ms>>

\* highlight-- on a Cursor variable
PostfixDecrement ==
  /\ highlight' = Decrement(highlight)
  /\ sp_h' = highlight
  /\ ui_input' = "--"
  /\ UNCHANGED <<mcu, millis, alarm_vars, nvs_vars, queue_vars, primary_vars, loop1_vars, wifi_vars, hist_vars, time_vars,
                 current_page, screensaver_on, alarm_clock, sp_stmts, sp_page, sp_target,
                 sp_from, sp_done, inactivity_millis, ui_handler, ui_done, ui_page,
                 since_input_ms>>

\* the operators on every value of the enum: the variable starts at any
\* Cursor
CursorInit ==
  /\ mcu \in {"MCU_IS_RP2040", "MCU_IS_ESP32_S2_MINI"}
  /\ millis = kMillisAfterSetup
  /\ second_core_tasks_queue = <<>>
  /\ second_core_task_added_flag_array = [k \in SecondCoreTask |-> FALSE]
  /\ pc0 = "loop"
  /\ task = kNoTask
  /\ ret0 = "loop"
  /\ pc1 = IF DualCore(mcu) THEN "while" ELSE "return"
  /\ loop1_caller = IF DualCore(mcu) THEN "core1" ELSE "none"
  /\ current_task = kNoTask
  /\ success = FALSE
  /\ attempts = 0
  /\ wifi_connected_ = FALSE
  /\ got_weather_info_ = FALSE
  /\ got_weather_info_time_ms = 0
  /\ last_ntp_server_time_update_time_ms = 0
  /\ accepted_not_processed = [k \in SecondCoreTask |-> 0]
  /\ wait_ms = 0
  /\ wdt_ms = 0
  /\ rtc_hw_sec_update_ = FALSE
  /\ current_page = kMainPage
  /\ highlight \in Cursor
  /\ screensaver_on = FALSE
  /\ alarm_clock = [alarm_hr_ |-> 7, alarm_min_ |-> 0, alarm_is_AM_ |-> TRUE,
                    alarm_ON_ |-> TRUE, var_1_ |-> 7, var_2_ |-> 0,
                    var_3_is_AM_ |-> TRUE, var_4_ON_ |-> TRUE]
  /\ sp_stmts = <<>>
  /\ sp_page = kNoPageSelected
  /\ sp_target = kNoPageSelected
  /\ sp_from = kMainPage
  /\ sp_h = highlight
  /\ sp_done = {}
  /\ inactivity_millis = 0
  /\ ui_handler = "none"
  /\ ui_input = ""
  /\ ui_done = {}
  /\ ui_page = kMainPage
  /\ since_input_ms = 0
  /\ ObjectsInit

CursorNext ==
  \/ PostfixIncrement
  \/ PostfixDecrement

CursorSpec == CursorInit /\ [][CursorNext]_vars

\* MoveCursor without the if chains of the pages
MoveCursorTo_GlobalWrap(page, h, increment) ==
  IF increment THEN Increment(h) ELSE Decrement(h)

\* MoveCursor that moves forward whatever the direction asked for
MoveCursorTo_IgnoresDirection(page, h, increment) == Increment(h)

\* highlight after MoveCursor(increment) on page with highlight = h
MoveCursorTo(page, h, increment) ==
  CASE page = kMainPage ->
         IF increment
           THEN (IF h = kMainPageSetAlarm THEN kCursorNoSelection ELSE Increment(h))
           ELSE (IF h = kCursorNoSelection THEN kMainPageSetAlarm ELSE Decrement(h))
    [] page = kSettingsPage ->
         IF increment
           THEN (IF h = kSettingsPageCancel THEN kSettingsPageWiFi ELSE Increment(h))
           ELSE (IF h = kSettingsPageWiFi THEN kSettingsPageCancel ELSE Decrement(h))
    [] page = kAlarmSetPage ->
         IF increment
           THEN (IF h = kCursorNoSelection THEN kAlarmSetPageHour
                 ELSE IF h = kAlarmSetPageCancel THEN kCursorNoSelection
                 ELSE Increment(h))
           ELSE (IF h = kCursorNoSelection THEN kAlarmSetPageCancel
                 ELSE IF h = kAlarmSetPageHour THEN kCursorNoSelection
                 ELSE Decrement(h))
    [] page = kWiFiSettingsPage ->
         IF increment
           THEN (IF h = kWiFiSettingsPageCancel THEN kWiFiSettingsPageSetSsidPasswd
                 ELSE Increment(h))
           ELSE (IF h = kWiFiSettingsPageSetSsidPasswd THEN kWiFiSettingsPageCancel
                 ELSE Decrement(h))
    [] page = kSoftApInputsPage ->
         IF h = kSoftApInputsPageSave THEN kSoftApInputsPageCancel ELSE kSoftApInputsPageSave
    [] page = kWeatherSettingsPage ->
         IF increment
           THEN (IF h = kWeatherSettingsPageCancel THEN kWeatherSettingsPageSetLocation
                 ELSE Increment(h))
           ELSE (IF h = kWeatherSettingsPageSetLocation THEN kWeatherSettingsPageCancel
                 ELSE Decrement(h))
    [] page = kLocationInputsPage ->
         IF h = kLocationInputsPageSave THEN kLocationInputsPageCancel
         ELSE kLocationInputsPageSave
    [] OTHER -> h

\* loop(), 355-376: the increment button calls MoveCursor(false) and the
\* decrement button MoveCursor(true), except on the alarm set page and on
\* the long press seconds row of the settings page
MoveCursor(increment) ==
  /\ sp_stmts = <<>>
  /\ current_page # kAlarmSetPage
  /\ ~(current_page = kSettingsPage /\ highlight = kSettingsPageAlarmLongPressSeconds)
  /\ highlight' = MoveCursorTo(current_page, highlight, increment)
  /\ UNCHANGED <<mcu, millis, alarm_vars, nvs_vars, queue_vars, primary_vars, loop1_vars, wifi_vars, hist_vars, time_vars,
                 current_page, screensaver_on, alarm_clock, sp_stmts, sp_page, sp_target,
                 sp_from, sp_h, sp_done, ui_vars>>

\* loop(), 256-268: the push button on the Set row of the settings page
\* moves highlight to the long press seconds row, and back
PushButtonOnSettingsPageSet ==
  /\ sp_stmts = <<>>
  /\ current_page = kSettingsPage
  /\ highlight \in {kSettingsPageSet, kSettingsPageAlarmLongPressSeconds}
  /\ highlight' = IF highlight = kSettingsPageSet
                    THEN kSettingsPageAlarmLongPressSeconds
                    ELSE kSettingsPageSet
  /\ UNCHANGED <<mcu, millis, alarm_vars, nvs_vars, queue_vars, primary_vars, loop1_vars, wifi_vars, hist_vars, time_vars,
                 current_page, screensaver_on, alarm_clock, sp_stmts, sp_page, sp_target,
                 sp_from, sp_h, sp_done, ui_vars>>

PageNext ==
  \/ \E page \in ScreenPage : SetPageCall(page)
  \/ SetPageStmt
  \/ \E increment \in BOOLEAN : MoveCursor(increment)
  \/ PushButtonOnSettingsPageSet

PageSpec == Init /\ [][PageNext]_vars

(***************************************************************************)
(* loop() as the caller of SetPage and MoveCursor: the block of the user   *)
(* input (212-377), the block of the new second (386-468) and              *)
(* ProcessSerialInput (767-912). The statements of the block that is       *)
(* running are in sp_stmts, those of a SetPage it calls in front of them.  *)
(***************************************************************************)
\* general_constants.h: the time an input has to wait after the one before
kUserInputDelayMs == 200

\* general_constants.h: the time without input that starts the screensaver
kInactivityMillisLimit == 60000

\* inactivity_millis is followed up to here: past it every comparison of
\* loop() has the same result
MaxInactivityMs == kInactivityMillisLimit + kUserInputDelayMs

\* the inputs of one pass of loop(): the touchscreen and the buttons that
\* are active
UserInputs == {"ts", "push", "inc", "dec", "ts+push"}

\* the characters read from the serial console; "?" is any character
\* without a case in ProcessSerialInput
SerialInputs == {"o", "s", "w", "y", "?"}

\* the clock readings at a new second: time lost, new minute, alarm due,
\* minute 0, weather info due, 2 AM
SecondInputs ==
  {<<FALSE, FALSE, FALSE, FALSE, FALSE, FALSE>>, <<TRUE, FALSE, FALSE, FALSE, FALSE, FALSE>>,
   <<FALSE, TRUE, TRUE, FALSE, FALSE, FALSE>>, <<FALSE, TRUE, FALSE, TRUE, FALSE, FALSE>>,
   <<FALSE, TRUE, FALSE, FALSE, TRUE, FALSE>>, <<FALSE, TRUE, FALSE, TRUE, FALSE, TRUE>>}

\* bool ts_input (213)
Touched(input) == input \in {"ts", "ts+push"}

\* the branch of the if / else if chain of the buttons (236, 355, 365)
Button(input) ==
  CASE input \in {"push", "ts+push"} -> "push"
    [] input = "inc" -> "inc"
    [] input = "dec" -> "dec"
    [] OTHER -> "none"

\* a clock d milliseconds later, followed up to max
Elapse(ms, d, max) == IF ms + d > max THEN max ELSE ms + d

\* the steps of the clock: past kUserInputDelayMs the next reading that
\* loop() can tell from the present one is kInactivityMillisLimit later
TimeSteps(ms) ==
  IF ms < kUserInputDelayMs
    THEN {kUserInputDelayMs, kInactivityMillisLimit}
    ELSE {kInactivityMillisLimit}

\* AlarmClock::BuzzAlarmFn: shows the alarm triggered page and blocks until
\* the alarm is ended
BuzzAlarmFn == <<Stmt("SetPage", kAlarmTriggeredPage), Stmt("delay", 0)>>

\* the input block without the assignment of line 217
InputBody_NoReset ==
  <<Stmt("display->SetMaxBrightness", 0), Stmt("page change", 0), Stmt("buttons", 0),
    Stmt("return", 0)>>

\* loop(), 212-218 and the blocks that follow
InputBody ==
  <<Stmt("display->SetMaxBrightness", 0), Stmt("inactivity_millis = 0", 0),
    Stmt("page change", 0), Stmt("buttons", 0), Stmt("return", 0)>>

\* the page change without the screensaver branch of 220-223
PageChange_NoScreensaverBranch(page, input, inactivity, region) ==
  IF Touched(input) /\ page = kAlarmSetPage
    THEN <<Stmt("SetAlarmScreen(process_user_input)", 0)>>
  ELSE IF Touched(input) /\ page # kAlarmSetPage /\ inactivity >= kUserInputDelayMs
    THEN <<Stmt("ClassifyUserScreenTouchInput", region)>>
         \o (IF region # kNoPageSelected THEN <<Stmt("SetPage", region)>> ELSE <<>>)
  ELSE <<>>

\* loop(), 220-233: the instant page change; region is the result of
\* ClassifyUserScreenTouchInput
PageChange(page, input, inactivity, region) ==
  IF page = kScreensaverPage
    THEN <<Stmt("SetPage", kMainPage)>>
  ELSE IF Touched(input) /\ page = kAlarmSetPage
    THEN <<Stmt("SetAlarmScreen(process_user_input)", 0)>>
  ELSE IF Touched(input) /\ page # kAlarmSetPage /\ inactivity >= kUserInputDelayMs
    THEN <<Stmt("ClassifyUserScreenTouchInput", region)>>
         \o (IF region # kNoPageSelected THEN <<Stmt("SetPage", region)>> ELSE <<>>)
  ELSE <<>>

\* Add the task, wait for it, then SetPage(page)
AddWaitSetPage(k, page) ==
  <<Stmt("AddSecondCoreTaskIfNotThere", k), Stmt("WaitForExecutionOfSecondCoreTask", 0),
    Stmt("SetPage", page)>>

\* loop(), 236-354: the push button
PushButton(page, h) ==
  CASE page = kAlarmSetPage -> <<Stmt("SetAlarmScreen(process_user_input)", 0)>>
    [] page = kMainPage /\ h = kMainPageSettingsWheel -> <<Stmt("SetPage", kSettingsPage)>>
    [] page = kMainPage /\ h = kMainPageSetAlarm -> <<Stmt("SetPage", kAlarmSetPage)>>
    [] page = kSettingsPage /\ h = kSettingsPageWiFi -> <<Stmt("SetPage", kWiFiSettingsPage)>>
    [] page = kSettingsPage /\ h = kSettingsPageWeather ->
         AddWaitSetPage(kGetWeatherInfo, kWeatherSettingsPage)
    [] page = kSettingsPage /\ h = kSettingsPageSet ->
         <<Stmt("delay", 0), Stmt("highlight =", kSettingsPageAlarmLongPressSeconds)>>
    [] page = kSettingsPage /\ h = kSettingsPageAlarmLongPressSeconds ->
         <<Stmt("highlight =", kSettingsPageSet), Stmt("SaveLongPressSeconds", 0),
           Stmt("delay", 0)>>
    [] page = kSettingsPage /\ h = kSettingsPageScreensaver ->
         <<Stmt("SetPage", kScreensaverPage)>>
    [] page = kSettingsPage /\ h = kSettingsPageCancel -> <<Stmt("SetPage", kMainPage)>>
    [] page = kWiFiSettingsPage /\ h = kWiFiSettingsPageSetSsidPasswd ->
         AddWaitSetPage(kStartSetWiFiSoftAP, kSoftApInputsPage)
    [] page = kWiFiSettingsPage /\ h = kWiFiSettingsPageConnect ->
         AddWaitSetPage(kConnectWiFi, kWiFiSettingsPage)
    [] page = kWiFiSettingsPage /\ h = kWiFiSettingsPageDisconnect ->
         AddWaitSetPage(kDisconnectWiFi, kWiFiSettingsPage)
    [] page = kWiFiSettingsPage /\ h = kWiFiSettingsPageCancel ->
         <<Stmt("SetPage", kSettingsPage)>>
    [] page = kSoftApInputsPage /\ h = kSoftApInputsPageSave ->
         <<Stmt("AddSecondCoreTaskIfNotThere", kStopSetWiFiSoftAP),
           Stmt("WaitForExecutionOfSecondCoreTask", 0), Stmt("SaveWiFiDetails", 0),
           Stmt("SetPage", kWiFiSettingsPage)>>
    [] page = kSoftApInputsPage /\ h = kSoftApInputsPageCancel ->
         AddWaitSetPage(kStopSetWiFiSoftAP, kWiFiSettingsPage)
    [] page = kWeatherSettingsPage /\ h = kWeatherSettingsPageSetLocation ->
         AddWaitSetPage(kStartLocationInputsLocalServer, kLocationInputsPage)
    [] page = kWeatherSettingsPage /\ h = kWeatherSettingsPageUnits ->
         <<Stmt("SaveWeatherUnits", 0), Stmt("got_weather_info_ = false", 0),
           Stmt("SetPage", kWeatherSettingsPage)>>
    [] page = kWeatherSettingsPage /\ h = kWeatherSettingsPageFetch ->
         AddWaitSetPage(kGetWeatherInfo, kWeatherSettingsPage)
    [] page = kWeatherSettingsPage /\ h = kWeatherSettingsPageUpdateTime ->
         AddWaitSetPage(kUpdateTimeFromNtpServer, kMainPage)
    [] page = kWeatherSettingsPage /\ h = kWeatherSettingsPageCancel ->
         <<Stmt("SetPage", kSettingsPage)>>
    [] page = kLocationInputsPage /\ h = kLocationInputsPageSave ->
         <<Stmt("AddSecondCoreTaskIfNotThere", kStopLocationInputsLocalServer),
           Stmt("WaitForExecutionOfSecondCoreTask", 0),
           Stmt("SaveWeatherLocationDetails", 0), Stmt("got_weather_info_ = false", 0),
           Stmt("SetPage", kWeatherSettingsPage)>>
    [] page = kLocationInputsPage /\ h = kLocationInputsPageCancel ->
         AddWaitSetPage(kStopLocationInputsLocalServer, kWeatherSettingsPage)
    [] OTHER -> <<>>

\* the increment and decrement buttons without the test of lines 360 and 370
IncDecButton_NoStepper(page, h, increment) ==
  IF page # kAlarmSetPage
    THEN <<Stmt("MoveCursor", IF increment THEN 1 ELSE 0)>>
    ELSE <<Stmt("SetAlarmScreen(process_user_input)", 0)>>

\* loop(), 355-376: the increment button calls MoveCursor(false), the
\* decrement button MoveCursor(true)
IncDecButton(page, h, increment) ==
  IF page = kSettingsPage /\ h = kSettingsPageAlarmLongPressSeconds
    THEN <<Stmt("SettingsPage(inc, dec)", 0)>>
  ELSE IF page # kAlarmSetPage
    THEN <<Stmt("MoveCursor", IF increment THEN 1 ELSE 0)>>
  ELSE <<Stmt("SetAlarmScreen(process_user_input)", 0)>>

\* loop(), 236-376
Buttons(page, h, input) ==
  CASE Button(input) = "push" -> PushButton(page, h)
    [] Button(input) = "inc" -> IncDecButton(page, h, FALSE)
    [] Button(input) = "dec" -> IncDecButton(page, h, TRUE)
    [] OTHER -> <<>>

\* loop(), 415-422: on the screensaver page every new hour shows the main
\* page; arg = 1 when rtc->minute() is 0
HourlyMainPage(page, arg) ==
  IF page = kScreensaverPage /\ arg = 1
    THEN <<Stmt("SetPage", kMainPage), Stmt("inactivity_millis = 0", 0)>>
    ELSE <<>>

\* loop(), 426-430: arg = 1 when the weather info is an hour old or the
\* alarm is five minutes away
WeatherCheck(inactivity, arg) ==
  IF inactivity > kInactivityMillisLimit /\ arg = 1
    THEN <<Stmt("AddSecondCoreTaskIfNotThere", kGetWeatherInfo)>>
    ELSE <<>>

\* the inactivity check without the test of current_page of line 462
InactivityCheck_NoPageTest(page, inactivity) ==
  IF inactivity > kInactivityMillisLimit
    THEN <<Stmt("CheckTimeAndSetBrightness", 0), Stmt("SetPage", kScreensaverPage)>>
    ELSE <<>>

\* loop(), 453-464: the limit is kInactivityMillisLimit on every page, as
\* one of the two inequalities of the condition always holds
InactivityCheck(page, inactivity) ==
  IF inactivity > kInactivityMillisLimit
    THEN (CASE page = kSoftApInputsPage ->
                 <<Stmt("AddSecondCoreTaskIfNotThere", kStopSetWiFiSoftAP)>>
            [] page = kLocationInputsPage ->
                 <<Stmt("AddSecondCoreTaskIfNotThere", kStopLocationInputsLocalServer)>>
            [] OTHER -> <<>>)
         \o <<Stmt("CheckTimeAndSetBrightness", 0)>>
         \o (IF page # kScreensaverPage THEN <<Stmt("SetPage", kScreensaverPage)>> ELSE <<>>)
    ELSE <<>>

\* loop(), 386-468: the block of the new second
SecondBody(time_lost, new_minute, alarm_due, minute_0, weather_due, ntp_due) ==
  (IF time_lost
     THEN <<Stmt("AddSecondCoreTaskIfNotThere", kUpdateTimeFromNtpServer),
            Stmt("WaitForExecutionOfSecondCoreTask", 0)>>
     ELSE <<>>)
  \o (IF new_minute
        THEN (IF ~time_lost /\ alarm_due
                THEN <<Stmt("BuzzAlarmFn", 0), Stmt("SetPage", kMainPage),
                       Stmt("inactivity_millis = 0", 0)>>
                ELSE <<>>)
             \o <<Stmt("if screensaver", IF minute_0 THEN 1 ELSE 0),
                  Stmt("weather check", IF weather_due THEN 1 ELSE 0)>>
             \o (IF ntp_due
                   THEN <<Stmt("AddSecondCoreTaskIfNotThere", kUpdateTimeFromNtpServer)>>
                   ELSE <<>>)
        ELSE <<>>)
  \o <<Stmt("PrepareTimeDayDateArrays", 0), Stmt("inactivity check", 0),
       Stmt("ResetWatchdog", 0), Stmt("return", 0)>>

\* ProcessSerialInput with no case for the character
SerialBody_DefaultSetsPage(input) == <<Stmt("SetPage", kMainPage), Stmt("return", 0)>>

\* ProcessSerialInput, the switch (775-911)
SerialBody(input) ==
  (CASE input = "a" -> <<Stmt("alarm_ON_ = !alarm_ON_", 0)>>
     [] input = "b" -> <<Stmt("SetBrightness", 0)>>
     [] input = "c" -> <<Stmt("AddSecondCoreTaskIfNotThere", kConnectWiFi)>>
     [] input = "d" -> <<Stmt("AddSecondCoreTaskIfNotThere", kDisconnectWiFi)>>
     [] input = "e" -> <<Stmt("Ds3231RtcSetup", 0)>>
     [] input = "f" -> <<Stmt("set_12hour_mode", 0)>>
     [] input = "g" -> <<Stmt("GoodMorningScreen", 0)>>
     [] input = "i" -> <<Stmt("delay", 0), Stmt("SaveWiFiDetails", 0)>>
     [] input = "n" -> <<Stmt("AddSecondCoreTaskIfNotThere", kUpdateTimeFromNtpServer)>>
     [] input = "o" -> <<Stmt("SetPage", kSettingsPage), Stmt("GetUserOnScreenTextInput", 0),
                         Stmt("SetPage", kSettingsPage)>>
     [] input = "s" -> <<Stmt("SetPage", kScreensaverPage)>>
     [] input = "t" -> <<Stmt("BuzzAlarmFn", 0), Stmt("SetPage", kMainPage),
                         Stmt("inactivity_millis = 0", 0)>>
     [] input = "w" -> <<Stmt("AddSecondCoreTaskIfNotThere", kGetWeatherInfo)>>
     [] input = "y" -> <<Stmt("SetPage", kAlarmTriggeredPage), Stmt("delay", 0),
                         Stmt("SetPage", kMainPage), Stmt("inactivity_millis = 0", 0)>>
     [] OTHER -> <<Stmt("Serial.println", 0)>>)
  \o <<Stmt("return", 0)>>

\* display->SetAlarmScreen with process_user_input: the alarm set page
\* moves its cursor, or is left for the main page by Set and by Cancel
SetAlarmScreenInput ==
  {<<>>, <<Stmt("MoveCursor", 1)>>, <<Stmt("MoveCursor", 0)>>, <<Stmt("SetPage", kMainPage)>>}

\* the statements run by SetPageStmt
SetPageOps ==
  {"SetPage", "ScreensaverControl(false)", "ScreensaverControl(true)", "current_page",
   "highlight", "DisplayTimeUpdate", "var_1_ = alarm_hr_ ...", "SetAlarmScreen",
   "AlarmTriggeredScreen", "SetMaxBrightness", "SettingsPage", "WiFiSettingsPage",
   "SoftApInputsPage", "GetUserOnScreenTextInput", "WeatherSettingsPage",
   "LocationInputsLocalServerPage", "InstantHighlightResponse"}

\* the conditional statements of loop()
BranchOps ==
  {"page change", "buttons", "if screensaver", "weather check", "inactivity check",
   "BuzzAlarmFn", "SetAlarmScreen(process_user_input)"}

\* the calls that leave loop() for the task queue, and the end of a block
CallOps == {"AddSecondCoreTaskIfNotThere", "WaitForExecutionOfSecondCoreTask", "return"}

\* the statements the primary context blocks in
BlockingOps == {"delay", "GetUserOnScreenTextInput"}

UiIdle == pc0 = "ui" /\ sp_stmts = <<>>

\* loop1 has run every task that was added
Loop1AtRest == second_core_tasks_queue = <<>> /\ pc1 \in {"while", "wifi_off", "return"}

UiAt(ops) == pc0 = "ui" /\ sp_stmts # <<>> /\ Head(sp_stmts).op \in ops

UiInit ==
  /\ mcu \in {"MCU_IS_RP2040", "MCU_IS_ESP32_S2_MINI"}
  /\ millis = kMillisAfterSetup
  /\ second_core_tasks_queue = <<>>
  /\ second_core_task_added_flag_array = [k \in SecondCoreTask |-> FALSE]
  /\ pc0 = "ui"
  /\ task = kNoTask
  /\ ret0 = "ui"
  /\ pc1 = IF DualCore(mcu) THEN "while" ELSE "return"
  /\ loop1_caller = IF DualCore(mcu) THEN "core1" ELSE "none"
  /\ current_task = kNoTask
  /\ success = FALSE
  /\ attempts = 0
  /\ wifi_connected_ = FALSE
  /\ got_weather_info_ = FALSE
  /\ got_weather_info_time_ms = 0
  /\ last_ntp_server_time_update_time_ms = 0
  /\ accepted_not_processed = [k \in SecondCoreTask |-> 0]
  /\ wait_ms = 0
  /\ wdt_ms = 0
  /\ rtc_hw_sec_update_ = FALSE
  /\ PageInit
  /\ ObjectsInit

\* a block of loop() starts with the statements body; the blocks are
\* followed from the states where the second core has caught up
UiStart(handler, input, body) ==
  /\ UiIdle
  /\ Loop1AtRest
  /\ sp_stmts' = body
  /\ ui_handler' = handler
  /\ ui_input' = input
  /\ ui_done' = {}
  /\ ui_page' = current_page
  /\ UNCHANGED <<mcu, millis, alarm_vars, nvs_vars, queue_vars, primary_vars, loop1_vars, wifi_vars, hist_vars, time_vars,
                 current_page, highlight, screensaver_on, alarm_clock, sp_page, sp_target,
                 sp_from, sp_h, sp_done, inactivity_millis>>

\* loop(), 212: an input is routed
RouteInput(input) ==
  /\ inactivity_millis >= kUserInputDelayMs
  /\ UiStart("input", input, InputBody)
  /\ since_input_ms' = 0

\* loop(), 386: rtc_hw_sec_update_ is set
NewSecond ==
  /\ \E in \in SecondInputs :
       UiStart("second", "", SecondBody(in[1], in[2], in[3], in[4], in[5], in[6]))
  /\ since_input_ms' = since_input_ms

\* loop(), 475-476: a character has arrived
ProcessSerialInput(input) ==
  /\ UiStart("serial", input, SerialBody(input))
  /\ since_input_ms' = since_input_ms

\* a conditional statement of loop(): the statements of the branch taken
UiBranch ==
  /\ UiAt(BranchOps)
  /\ LET stmt == Head(sp_stmts) IN
       /\ \E region \in ScreenPage, alarm_input \in SetAlarmScreenInput :
            sp_stmts' =
              (CASE stmt.op = "page change" ->
                      PageChange(current_page, ui_input, inactivity_millis, region)
                 [] stmt.op = "buttons" -> Buttons(current_page, highlight, ui_input)
                 [] stmt.op = "if screensaver" -> HourlyMainPage(current_page, stmt.arg)
                 [] stmt.op = "weather check" -> WeatherCheck(inactivity_millis, stmt.arg)
                 [] stmt.op = "inactivity check" ->
                      InactivityCheck(current_page, inactivity_millis)
                 [] stmt.op = "BuzzAlarmFn" -> BuzzAlarmFn
                 [] OTHER -> alarm_input)
              \o Tail(sp_stmts)
       /\ ui_done' = ui_done \cup {stmt.op}
  /\ UNCHANGED <<mcu, millis, alarm_vars, nvs_vars, queue_vars, primary_vars, loop1_vars, wifi_vars, hist_vars, time_vars,
                 current_page, highlight, screensaver_on, alarm_clock, sp_page, sp_target,
                 sp_from, sp_h, sp_done, inactivity_millis, ui_handler, ui_input, ui_page,
                 since_input_ms>>

\* a statement of loop() that is not a call of the functions modelled here
UiStmt ==
  /\ UiAt({Head(sp_stmts).op} \ (SetPageOps \cup BranchOps \cup CallOps))
  /\ LET stmt == Head(sp_stmts) IN
       /\ inactivity_millis' =
            IF stmt.op = "inactivity_millis = 0" THEN 0 ELSE inactivity_millis
       /\ highlight' =
            CASE stmt.op = "highlight =" -> stmt.arg
              [] stmt.op = "MoveCursor" -> MoveCursorTo(current_page, highlight, stmt.arg = 1)
              [] OTHER -> highlight
       /\ got_weather_info_' =
            IF stmt.op = "got_weather_info_ = false" THEN FALSE ELSE got_weather_info_
       /\ alarm_clock' =
            IF stmt.op = "alarm_ON_ = !alarm_ON_"
              THEN [alarm_clock EXCEPT !.alarm_ON_ = ~alarm_clock.alarm_ON_]
              ELSE alarm_clock
       /\ preferences' =
            IF stmt.op = "SaveLongPressSeconds"
              THEN [preferences EXCEPT
                      !["kAlarmLongPressSecondsKey"] = kAlarmEndButtonPressAndHoldSeconds % 256]
              ELSE preferences
       /\ nvs_hist' =
            IF stmt.op = "SaveLongPressSeconds"
              THEN [nvs_hist EXCEPT !.last = "SaveLongPressSeconds", !.others = TRUE]
              ELSE nvs_hist
       /\ ui_done' = ui_done \cup {stmt.op}
  /\ sp_stmts' = Tail(sp_stmts)
  /\ UNCHANGED <<mcu, millis, alarm_vars, retrieved, queue_vars, primary_vars, loop1_vars, wifi_connected_,
                 got_weather_info_time_ms, last_ntp_server_time_update_time_ms, hist_vars,
                 time_vars, current_page, screensaver_on, sp_page, sp_target, sp_from, sp_h,
                 sp_done, ui_handler, ui_input, ui_page, since_input_ms>>

\* a statement of SetPage, called from loop()
UiSetPageStmt ==
  /\ UiAt(SetPageOps)
  /\ SetPageStmt

\* loop() calls AddSecondCoreTaskIfNotThere(k)
UiAdd ==
  /\ UiAt({"AddSecondCoreTaskIfNotThere"})
  /\ pc0' = "add_if"
  /\ task' = Head(sp_stmts).arg
  /\ ret0' = "ui"
  /\ sp_stmts' = Tail(sp_stmts)
  /\ ui_done' = ui_done \cup {Head(sp_stmts).op}
  /\ UNCHANGED <<mcu, millis, alarm_vars, nvs_vars, queue_vars, loop1_vars, wifi_vars, hist_vars, time_vars,
                 current_page, highlight, screensaver_on, alarm_clock, sp_page, sp_target,
                 sp_from, sp_h, sp_done, inactivity_millis, ui_handler, ui_input, ui_page,
                 since_input_ms>>

\* loop() comes to a call of WaitForExecutionOfSecondCoreTask
UiWait ==
  /\ UiAt({"WaitForExecutionOfSecondCoreTask"})
  /\ pc0' = "ui_wait"
  /\ sp_stmts' = Tail(sp_stmts)
  /\ ui_done' = ui_done \cup {Head(sp_stmts).op}
  /\ UNCHANGED <<mcu, millis, alarm_vars, nvs_vars, queue_vars, task, ret0, loop1_vars, wifi_vars, hist_vars, time_vars,
                 current_page, highlight, screensaver_on, alarm_clock, sp_page, sp_target,
                 sp_from, sp_h, sp_done, inactivity_millis, ui_handler, ui_input, ui_page,
                 since_input_ms>>

\* the end of the block; the history of the block ends with it
UiReturn ==
  /\ UiAt({"return"})
  /\ sp_stmts' = Tail(sp_stmts)
  /\ ui_handler' = "none"
  /\ ui_input' = ""
  /\ ui_done' = {}
  /\ ui_page' = current_page
  /\ sp_target' = kNoPageSelected
  /\ sp_done' = {}
  /\ UNCHANGED <<mcu, millis, alarm_vars, nvs_vars, queue_vars, primary_vars, loop1_vars, wifi_vars, hist_vars, time_vars,
                 current_page, highlight, screensaver_on, alarm_clock, sp_page, sp_from, sp_h,
                 inactivity_millis, since_input_ms>>

\* time passes while the primary context has nothing to run, waits for the
\* second core or is in a blocking call; the other statements take no time
\* at the grain of UiStepMs
UiTick ==
  /\ UiIdle \/ pc0 \in {"wait", "loop1"} \/ UiAt(BlockingOps)
  /\ \E d \in TimeSteps(inactivity_millis) :
       /\ inactivity_millis' = Elapse(inactivity_millis, d, MaxInactivityMs)
       /\ since_input_ms' = Elapse(since_input_ms, d, kUserInputDelayMs)
  /\ inactivity_millis' # inactivity_millis
  /\ UNCHANGED <<mcu, millis, alarm_vars, nvs_vars, queue_vars, primary_vars, loop1_vars, wifi_vars, hist_vars, time_vars,
                 current_page, highlight, screensaver_on, alarm_clock, sp_stmts, sp_page,
                 sp_target, sp_from, sp_h, sp_done, ui_handler, ui_input, ui_done, ui_page>>

\* a statement of loop1. The second core is followed while the primary
\* context is between two blocks or waits for it, and with the network
\* down: no fetch and no connection succeeds. loop() reads nothing of what
\* a task leaves behind.
UiLoop1Step ==
  /\ UiIdle \/ pc0 \in {"wait", "loop1"}
  /\ Loop1Step
  /\ UNCHANGED wifi_vars

UiNext ==
  \/ \E input \in UserInputs : RouteInput(input)
  \/ NewSecond
  \/ \E input \in SerialInputs : ProcessSerialInput(input)
  \/ UiBranch
  \/ UiStmt
  \/ UiSetPageStmt
  \/ UiAdd
  \/ UiWait
  \/ UiReturn
  \/ UiTick
  \/ AddIf
  \/ AddPush
  \/ AddSet
  \/ WaitCall
  \/ WaitReturn
  \/ LoopCallsLoop1
  \/ UiLoop1Step

UiSpec == UiInit /\ [][UiNext]_vars

\* an input is routed or a serial command is read
UserActs ==
  \/ \E input \in UserInputs : RouteInput(input)
  \/ \E input \in SerialInputs : ProcessSerialInput(input)

\* loop(), 405-408: the block of the new minute finds the alarm due
AlarmRings ==
  /\ UiIdle
  /\ ui_handler' = "second"
  /\ sp_stmts' # <<>>
  /\ Head(sp_stmts') = Stmt("BuzzAlarmFn", 0)

\* a statement of loop() or of a function it calls
UiRuns ==
  \/ UiBranch
  \/ UiStmt
  \/ UiSetPageStmt
  \/ UiAdd
  \/ UiWait
  \/ UiReturn
  \/ AddIf
  \/ AddPush
  \/ AddSet
  \/ WaitCall
  \/ WaitReturn
  \/ LoopCallsLoop1

\* time passes, the clock pulse keeps coming and loop() handles it, the
\* statements of loop() and of loop1 are run
UiFairness ==
  /\ SF_vars(UiTick)
  /\ SF_vars(NewSecond)
  /\ WF_vars(UiRuns)
  /\ WF_vars(UiLoop1Step)

UiFairSpec == UiSpec /\ UiFairness

(***************************************************************************)
(* The alarm: the minute block of loop() (398-412) and the serial command  *)
(* 't' (875-884) as the callers of AlarmClock::BuzzAlarmFn, and the        *)
(* ringing episode with the buzzer that it owns.  The class declaration    *)
(* (alarm_clock.h) gives the fields and the two constants; the bodies of   *)
(* the member functions follow sections 4.3 and 4.4 of the specification.  *)
(* The buzzer timer callback runs at interrupt priority on the core of     *)
(* loop(): it is one step, and it can come between any two statements of   *)
(* the primary context while the timer alarm is enabled.                   *)
(***************************************************************************)
\* the time between two polls of the cancel button that the model tells apart
AlarmTickMs == 5000

\* const unsigned long kAlarmMaxON_TimeMs = 120*1000
kAlarmMaxON_TimeMs == 120 * 1000

\* a reading of the clock, or an alarm time, in 12 hour mode
Time12(hour, minute, am) == [hour |-> hour, minute |-> minute, am |-> am]

\* the minutes the clock goes through, in order and round again the next
\* day; the minutes left out are like those that match no alarm time
ClockTimes ==
  <<Time12(6, 59, TRUE), Time12(7, 0, TRUE), Time12(7, 1, TRUE), Time12(7, 0, FALSE),
    Time12(12, 0, TRUE)>>

\* the alarm times that are set
AlarmTimes == {Time12(7, 0, TRUE), Time12(12, 0, TRUE)}

\* the years the clock shows: 2023 when its time is lost
ClockYears == {2023, 2024}

\* the minute of the day of a 12 hour reading
MinuteOfDay(t) == ((t.hour % 12) + (IF t.am THEN 0 ELSE 12)) * 60 + t.minute

\* the alarm time of the AlarmClock object
AlarmTime(ac) == Time12(ac.alarm_hr_, ac.alarm_min_, ac.alarm_is_AM_)

\* AlarmClock::MinutesToAlarm: the minutes until the alarm, 0 exactly at the
\* alarm time, and no number of minutes when the alarm is off
MinutesToAlarm(ac, now) ==
  IF ac.alarm_ON_
    THEN (MinuteOfDay(AlarmTime(ac)) - MinuteOfDay(now)) % (24 * 60)
    ELSE 0 - 1

\* the clock reading of the rtc object
Now == ClockTimes[rtc.time]

\* the test of line 405 without the year of the clock
AlarmDue_AnyYear == MinutesToAlarm(alarm_clock, Now) = 0

\* loop(), 405
AlarmDue == rtc.year >= 2024 /\ MinutesToAlarm(alarm_clock, Now) = 0

\* the caller that leaves the page and the inactivity timer as BuzzAlarmFn
\* has left them
CallBuzzAlarmFn_Only == <<Stmt("BuzzAlarmFn", 0), Stmt("return", 0)>>

\* loop(), 407-411 and ProcessSerialInput, 879-882
CallBuzzAlarmFn ==
  <<Stmt("BuzzAlarmFn", 0), Stmt("SetPage", kMainPage), Stmt("inactivity_millis = 0", 0),
    Stmt("return", 0)>>

\* BuzzerDisable that silences the pin before it stops the timer alarm
BuzzerDisableBody_PinFirst ==
  <<Stmt("digitalWrite(BUZZER_PIN, LOW)", 0), Stmt("timer alarm off", 0)>>

\* AlarmClock::BuzzerDisable: the timer alarm is switched off, then the pin
\* is silenced
BuzzerDisableBody ==
  <<Stmt("timer alarm off", 0), Stmt("digitalWrite(BUZZER_PIN, LOW)", 0)>>

\* AlarmClock::BuzzAlarmFn: Idle -> Ringing, the polling loop, and the
\* cleanup that follows Cancelled and TimedOut alike
BuzzAlarmFnBody ==
  <<Stmt("SetPage", kAlarmTriggeredPage), Stmt("SetMaxBrightness", 0),
    Stmt("SetupBuzzerTimer", 0), Stmt("BuzzerEnable", 0), Stmt("Ringing", 0)>>
  \o BuzzerDisableBody
  \o <<Stmt("DeallocateBuzzerTimer", 0), Stmt("GoodMorningScreen", 0),
       Stmt("BuzzAlarmFn returns", 0)>>

\* the allocation that does not look for a timer already there
SetupBuzzerTimerFn_Always(b) ==
  [b EXCEPT !.passive_buzzer_timer_ptr_ = "timer", !.allocations = b.allocations + 1]

\* AlarmClock::SetupBuzzerTimer: a timer is allocated unless there is one
SetupBuzzerTimerFn(b) ==
  IF b.passive_buzzer_timer_ptr_ = "NULL"
    THEN [b EXCEPT !.passive_buzzer_timer_ptr_ = "timer", !.allocations = b.allocations + 1]
    ELSE b

\* AlarmClock::BuzzerEnable
BuzzerEnableFn(b) == [b EXCEPT !.enabled = TRUE]

\* AlarmClock::BuzzerDisable, its first statement
BuzzerAlarmOffFn(b) == [b EXCEPT !.enabled = FALSE]

\* AlarmClock::BuzzerDisable, its second statement
BuzzerPinLowFn(b) == [b EXCEPT !.pin = "LOW"]

\* AlarmClock::BuzzerDisable
BuzzerDisableFn(b) == BuzzerPinLowFn(BuzzerAlarmOffFn(b))

\* AlarmClock::DeallocateBuzzerTimer
DeallocateBuzzerTimerFn(b) ==
  IF b.passive_buzzer_timer_ptr_ = "NULL"
    THEN b
    ELSE [b EXCEPT !.passive_buzzer_timer_ptr_ = "NULL", !.allocations = b.allocations - 1]

\* the callback that writes the square wave to the pin in silence as well
PassiveBuzzerTimerISRFn_NoSilence(b, beep_over) ==
  LET beep == IF beep_over THEN ~b.beep_toggle_ ELSE b.beep_toggle_
      wave == ~b.buzzer_square_wave_toggle_
  IN  [b EXCEPT !.beep_toggle_ = beep, !.buzzer_square_wave_toggle_ = wave,
                !.pin = IF wave THEN "HIGH" ELSE "LOW"]

\* AlarmClock::PassiveBuzzerTimerISR: the beep toggle flips when
\* kBeepLengthMs have passed since beep_start_time_ms_, the square wave
\* toggle flips on every call, the pin follows it while the phase is a beep
PassiveBuzzerTimerISRFn(b, beep_over) ==
  LET beep == IF beep_over THEN ~b.beep_toggle_ ELSE b.beep_toggle_
      wave == ~b.buzzer_square_wave_toggle_
  IN  [b EXCEPT !.beep_toggle_ = beep, !.buzzer_square_wave_toggle_ = wave,
                !.pin = IF beep /\ wave THEN "HIGH" ELSE "LOW"]

\* the press counter that keeps its count when the button is released
PressAfter_Cumulative(press_ms, pressed, d) ==
  IF pressed THEN press_ms + d ELSE press_ms

\* the continuous-press counter after a poll d milliseconds later
PressAfter(press_ms, pressed, d) == IF pressed THEN press_ms + d ELSE 0

\* the long press that ends the alarm
LongPressMs == kAlarmEndButtonPressAndHoldSeconds * 1000

\* Ringing -> Cancelled
Cancels(press_ms) == press_ms >= LongPressMs

\* the episode that is ended by its age one poll late
TimesOut_Late(elapsed_ms) == elapsed_ms >= kAlarmMaxON_TimeMs + AlarmTickMs

\* Ringing -> TimedOut
TimesOut(elapsed_ms) == elapsed_ms >= kAlarmMaxON_TimeMs

AlAt(ops) == pc0 = "alarm" /\ sp_stmts # <<>> /\ Head(sp_stmts).op \in ops

\* loop() is between two passes
AlIdle == pc0 = "alarm" /\ sp_stmts = <<>>

AlarmInit ==
  /\ mcu = "MCU_IS_RP2040"
  /\ millis = kMillisAfterSetup
  /\ second_core_tasks_queue = <<>>
  /\ second_core_task_added_flag_array = [k \in SecondCoreTask |-> FALSE]
  /\ pc0 = "alarm"
  /\ task = kNoTask
  /\ ret0 = "alarm"
  /\ pc1 = "while"
  /\ loop1_caller = "core1"
  /\ current_task = kNoTask
  /\ success = FALSE
  /\ attempts = 0
  /\ wifi_connected_ = FALSE
  /\ got_weather_info_ = FALSE
  /\ got_weather_info_time_ms = 0
  /\ last_ntp_server_time_update_time_ms = 0
  /\ accepted_not_processed = [k \in SecondCoreTask |-> 0]
  /\ wait_ms = 0
  /\ wdt_ms = 0
  /\ rtc_hw_sec_update_ = FALSE
  /\ current_page = kMainPage
  /\ highlight = kCursorNoSelection
  /\ screensaver_on = FALSE
  /\ \E t \in AlarmTimes, on \in BOOLEAN :
       alarm_clock = [alarm_hr_ |-> t.hour, alarm_min_ |-> t.minute, alarm_is_AM_ |-> t.am,
                      alarm_ON_ |-> on, var_1_ |-> t.hour, var_2_ |-> t.minute,
                      var_3_is_AM_ |-> t.am, var_4_ON_ |-> on]
  /\ sp_stmts = <<>>
  /\ sp_page = kNoPageSelected
  /\ sp_target = kNoPageSelected
  /\ sp_from = kMainPage
  /\ sp_h = kCursorNoSelection
  /\ sp_done = {}
  /\ inactivity_millis = 0
  /\ ui_handler = "none"
  /\ ui_input = ""
  /\ ui_done = {}
  /\ ui_page = kMainPage
  /\ since_input_ms = 0
  /\ \E y \in ClockYears : rtc = [time |-> 1, year |-> y, rtc_hw_min_update_ |-> FALSE,
                                   mode_12hour |-> TRUE]
  /\ buzzer = BuzzerOff
  /\ episode = NoEpisode
  /\ preferences = [k \in NvsKeys |-> kNoValue]
  /\ retrieved = <<0, 0, FALSE, FALSE>>
  /\ nvs_hist = NoNvsCall

\* the clock pulse of a new minute: the rtc object takes the next reading
\* and sets both of its flags
RtcNewMinute ==
  /\ AlIdle
  /\ ~rtc_hw_sec_update_
  /\ rtc' = [rtc EXCEPT !.time = (rtc.time % Len(ClockTimes)) + 1,
                        !.rtc_hw_min_update_ = TRUE]
  /\ rtc_hw_sec_update_' = TRUE
  /\ episode' = [episode EXCEPT !.started = 0]
  /\ UNCHANGED <<mcu, millis, nvs_vars, queue_vars, primary_vars, loop1_vars, wifi_vars, hist_vars,
                 wait_ms, wdt_ms, page_vars, buzzer>>

\* the clock pulse of a second inside the minute
RtcNewSecond ==
  /\ AlIdle
  /\ ~rtc_hw_sec_update_
  /\ rtc_hw_sec_update_' = TRUE
  /\ UNCHANGED <<mcu, millis, alarm_vars, nvs_vars, queue_vars, primary_vars, loop1_vars, wifi_vars,
                 hist_vars, wait_ms, wdt_ms, page_vars>>

\* loop(), 386-412: the new second, the new minute and the alarm that is due
AlarmLoopSecond ==
  /\ AlIdle
  /\ rtc_hw_sec_update_
  /\ rtc_hw_sec_update_' = FALSE
  /\ rtc' = [rtc EXCEPT !.rtc_hw_min_update_ = FALSE]
  /\ sp_stmts' = IF rtc.rtc_hw_min_update_ /\ AlarmDue THEN CallBuzzAlarmFn ELSE <<>>
  /\ ui_handler' = IF rtc.rtc_hw_min_update_ /\ AlarmDue THEN "second" ELSE "none"
  /\ UNCHANGED <<mcu, millis, nvs_vars, queue_vars, primary_vars, loop1_vars, wifi_vars, hist_vars,
                 wait_ms, wdt_ms, current_page, highlight, screensaver_on, alarm_clock,
                 sp_page, sp_target, sp_from, sp_h, sp_done, inactivity_millis, ui_input,
                 ui_done, ui_page, since_input_ms, buzzer, episode>>

\* ProcessSerialInput, case 't'
SerialBuzzAlarm ==
  /\ AlIdle
  /\ sp_stmts' = CallBuzzAlarmFn
  /\ ui_handler' = "serial"
  /\ UNCHANGED <<mcu, millis, alarm_vars, nvs_vars, queue_vars, primary_vars, loop1_vars, wifi_vars,
                 hist_vars, time_vars, current_page, highlight, screensaver_on, alarm_clock,
                 sp_page, sp_target, sp_from, sp_h, sp_done, inactivity_millis, ui_input,
                 ui_done, ui_page, since_input_ms>>

\* ProcessSerialInput, case 'a'
SerialToggleAlarm ==
  /\ AlIdle
  /\ alarm_clock' = [alarm_clock EXCEPT !.alarm_ON_ = ~alarm_clock.alarm_ON_]
  /\ UNCHANGED <<mcu, millis, alarm_vars, nvs_vars, queue_vars, primary_vars, loop1_vars, wifi_vars,
                 hist_vars, time_vars, current_page, highlight, screensaver_on, sp_stmts,
                 sp_page, sp_target, sp_from, sp_h, sp_done, ui_vars>>

\* BuzzAlarmFn is called: Idle -> Ringing
BuzzAlarmFnCall ==
  /\ AlAt({"BuzzAlarmFn"})
  /\ sp_stmts' = BuzzAlarmFnBody \o Tail(sp_stmts)
  /\ episode' = [state |-> "Ringing", elapsed_ms |-> 0, press_ms |-> 0, total_press_ms |-> 0,
                 button |-> FALSE, from |-> ui_handler,
                 started |-> IF ui_handler = "second" THEN episode.started + 1
                                                      ELSE episode.started]
  /\ UNCHANGED <<mcu, millis, nvs_vars, queue_vars, primary_vars, loop1_vars, wifi_vars, hist_vars,
                 time_vars, current_page, highlight, screensaver_on, alarm_clock, sp_page,
                 sp_target, sp_from, sp_h, sp_done, ui_vars, rtc, buzzer>>

\* a statement of SetPage, called by BuzzAlarmFn or by its caller
AlarmSetPageStmt == AlAt(SetPageOps) /\ SetPageStmt

\* a statement of BuzzAlarmFn on the buzzer
BuzzerStmt ==
  /\ AlAt({"SetupBuzzerTimer", "BuzzerEnable", "timer alarm off",
           "digitalWrite(BUZZER_PIN, LOW)", "DeallocateBuzzerTimer"})
  /\ LET op == Head(sp_stmts).op IN
       buzzer' = (CASE op = "SetupBuzzerTimer" -> SetupBuzzerTimerFn(buzzer)
                    [] op = "BuzzerEnable" -> BuzzerEnableFn(buzzer)
                    [] op = "timer alarm off" -> BuzzerAlarmOffFn(buzzer)
                    [] op = "digitalWrite(BUZZER_PIN, LOW)" -> BuzzerPinLowFn(buzzer)
                    [] OTHER -> DeallocateBuzzerTimerFn(buzzer))
  /\ sp_stmts' = Tail(sp_stmts)
  /\ UNCHANGED <<mcu, millis, nvs_vars, queue_vars, primary_vars, loop1_vars, wifi_vars, hist_vars,
                 time_vars, current_page, highlight, screensaver_on, alarm_clock, sp_page,
                 sp_target, sp_from, sp_h, sp_done, ui_vars, rtc, episode>>

\* While Ringing: AlarmTickMs later the cancel button is polled again, held
\* all the time since the last poll or released; the episode goes on, is
\* cancelled by the long press or has reached its maximum duration
AlarmPoll ==
  /\ AlAt({"Ringing"})
  /\ \E pressed \in BOOLEAN :
       LET elapsed == episode.elapsed_ms + AlarmTickMs
           press == PressAfter(episode.press_ms, pressed, AlarmTickMs)
           total == IF pressed
                      THEN Elapse(episode.total_press_ms, AlarmTickMs, LongPressMs)
                      ELSE episode.total_press_ms
       IN  \E state \in {"Ringing", "Cancelled", "TimedOut"} :
             /\ state = "Cancelled" => Cancels(press)
             /\ state = "TimedOut" => TimesOut(elapsed)
             /\ state = "Ringing" => ~Cancels(press) /\ ~TimesOut(elapsed)
             /\ episode' = [episode EXCEPT !.state = state, !.elapsed_ms = elapsed,
                                           !.press_ms = press, !.total_press_ms = total,
                                           !.button = pressed]
             /\ sp_stmts' = IF state = "Ringing" THEN sp_stmts ELSE Tail(sp_stmts)
  /\ inactivity_millis' = Elapse(inactivity_millis, AlarmTickMs, MaxInactivityMs)
  /\ UNCHANGED <<mcu, millis, nvs_vars, queue_vars, primary_vars, loop1_vars, wifi_vars, hist_vars,
                 time_vars, current_page, highlight, screensaver_on, alarm_clock, sp_page,
                 sp_target, sp_from, sp_h, sp_done, ui_handler, ui_input, ui_done, ui_page,
                 since_input_ms, rtc, buzzer>>

\* the timer callback, while the timer exists and its alarm is enabled
PassiveBuzzerTimerISR ==
  /\ pc0 = "alarm"
  /\ buzzer.passive_buzzer_timer_ptr_ # "NULL"
  /\ buzzer.enabled
  /\ \E beep_over \in BOOLEAN : buzzer' = PassiveBuzzerTimerISRFn(buzzer, beep_over)
  /\ UNCHANGED <<mcu, millis, nvs_vars, queue_vars, primary_vars, loop1_vars, wifi_vars, hist_vars,
                 time_vars, page_vars, rtc, episode>>

\* BuzzAlarmFn returns to its caller; the clock has moved on if the
\* episode has lasted a minute
BuzzAlarmFnReturns ==
  /\ AlAt({"BuzzAlarmFn returns", "GoodMorningScreen"})
  /\ sp_stmts' = Tail(sp_stmts)
  /\ IF Head(sp_stmts).op = "BuzzAlarmFn returns"
       THEN /\ episode' = [NoEpisode EXCEPT
                             !.started = IF episode.elapsed_ms >= 60 * 1000
                                           THEN 0 ELSE episode.started]
            /\ rtc' = IF episode.elapsed_ms >= 60 * 1000
                        THEN [rtc EXCEPT !.time = (rtc.time % Len(ClockTimes)) + 1,
                                         !.rtc_hw_min_update_ = TRUE]
                        ELSE rtc
            /\ rtc_hw_sec_update_' = TRUE
       ELSE UNCHANGED <<episode, rtc, rtc_hw_sec_update_>>
  /\ UNCHANGED <<mcu, millis, nvs_vars, queue_vars, primary_vars, loop1_vars, wifi_vars, hist_vars,
                 wait_ms, wdt_ms, current_page, highlight, screensaver_on, alarm_clock,
                 sp_page, sp_target, sp_from, sp_h, sp_done, ui_vars, buzzer>>

\* the caller of BuzzAlarmFn resets inactivity_millis and its pass ends
AlarmCallerStmt ==
  /\ AlAt({"inactivity_millis = 0", "return"})
  /\ sp_stmts' = Tail(sp_stmts)
  /\ inactivity_millis' =
       IF Head(sp_stmts).op = "inactivity_millis = 0" THEN 0 ELSE inactivity_millis
  /\ ui_handler' = IF Head(sp_stmts).op = "return" THEN "none" ELSE ui_handler
  /\ UNCHANGED <<mcu, millis, alarm_vars, nvs_vars, queue_vars, primary_vars, loop1_vars, wifi_vars,
                 hist_vars, time_vars, current_page, highlight, screensaver_on, alarm_clock,
                 sp_page, sp_target, sp_from, sp_h, sp_done, ui_input, ui_done, ui_page,
                 since_input_ms>>

\* the minute block, the serial commands and the episode.  The timer
\* callback writes only the two toggles and the pin of the buzzer, which
\* nothing here reads: it is left to BuzzerSpec
AlarmNext ==
  \/ RtcNewMinute
  \/ RtcNewSecond
  \/ AlarmLoopSecond
  \/ SerialBuzzAlarm
  \/ SerialToggleAlarm
  \/ BuzzAlarmFnCall
  \/ AlarmSetPageStmt
  \/ BuzzerStmt
  \/ AlarmPoll
  \/ BuzzAlarmFnReturns
  \/ AlarmCallerStmt

AlarmSpec == AlarmInit /\ [][AlarmNext]_vars

\* the primary context runs on, and the clock pulses keep coming
AlarmFairness == WF_vars(AlarmNext)

AlarmFairSpec == AlarmSpec /\ AlarmFairness

\* a poll of an episode in which the button is held from the first poll
\* on or is never touched
SteadyAlarmPoll ==
  /\ AlarmPoll
  /\ episode.elapsed_ms > 0 => episode'.button = episode.button

\* the episode with the timer callback between the statements of the
\* primary context
BuzzerNext ==
  \/ RtcNewMinute
  \/ RtcNewSecond
  \/ AlarmLoopSecond
  \/ SerialBuzzAlarm
  \/ SerialToggleAlarm
  \/ BuzzAlarmFnCall
  \/ AlarmSetPageStmt
  \/ BuzzerStmt
  \/ SteadyAlarmPoll
  \/ PassiveBuzzerTimerISR
  \/ BuzzAlarmFnReturns
  \/ AlarmCallerStmt

BuzzerSpec == AlarmInit /\ [][BuzzerNext]_vars

(***************************************************************************)
(* NvsPreferences: the alarm in the key-value store.  A value is kept as   *)
(* the store keeps it: putUChar keeps one byte, putBool the byte 1 or 0,    *)
(* getUChar and getBool without a default give 0 and false for a key that   *)
(* was never written.                                                      *)
(***************************************************************************)

\* SaveAlarm that writes the minute under the key of the hour
SaveAlarmFn_OneKey(p, alarmHr, alarmMin, alarmIsAm, alarmOn) ==
  [p EXCEPT !["kAlarmHrKey"] = alarmMin % 256,
            !["kAlarmIsAmKey"] = IF alarmIsAm THEN 1 ELSE 0,
            !["kAlarmOnKey"] = IF alarmOn THEN 1 ELSE 0]

\* NvsPreferences::SaveAlarm, 109-117
SaveAlarmFn(p, alarmHr, alarmMin, alarmIsAm, alarmOn) ==
  [p EXCEPT !["kAlarmHrKey"] = alarmHr % 256,
            !["kAlarmMinKey"] = alarmMin % 256,
            !["kAlarmIsAmKey"] = IF alarmIsAm THEN 1 ELSE 0,
            !["kAlarmOnKey"] = IF alarmOn THEN 1 ELSE 0]

\* NvsPreferences::RetrieveAlarmSettings, 100-107: its four out parameters
RetrieveAlarmSettingsFn(p) ==
  LET getUChar(key) == IF p[key] = kNoValue THEN 0 ELSE p[key] % 256
      getBool(key) == getUChar(key) = 1
  IN  <<getUChar("kAlarmHrKey"), getUChar("kAlarmMinKey"),
        getBool("kAlarmIsAmKey"), getBool("kAlarmOnKey")>>

\* the alarms SaveAlarm is called with: every alarm in the first call, the
\* alarms of AlarmTimes, on and off, in a call that overwrites an alarm
SaveAlarmInputs ==
  IF nvs_hist.args = <<>>
    THEN {<<alarmHr, alarmMin, alarmIsAm, alarmOn>> :
            alarmHr \in 1 .. 12, alarmMin \in 0 .. 59,
            alarmIsAm \in BOOLEAN, alarmOn \in BOOLEAN}
    ELSE {<<t.hour, t.minute, t.am, alarmOn>> : t \in AlarmTimes, alarmOn \in BOOLEAN}

\* NvsPreferences::SaveAlarm is called
NvsSaveAlarm ==
  /\ nvs_hist.last # "RetrieveAlarmSettings"
  /\ \E args \in SaveAlarmInputs :
       /\ preferences' = SaveAlarmFn(preferences, args[1], args[2], args[3], args[4])
       /\ nvs_hist' = [last |-> "SaveAlarm", others |-> FALSE, args |-> args]
  /\ UNCHANGED <<mcu, millis, alarm_vars, queue_vars, primary_vars, loop1_vars, wifi_vars,
                 hist_vars, time_vars, page_vars, retrieved>>

\* NvsPreferences::SaveLongPressSeconds, 93-98
NvsSaveLongPressSeconds ==
  /\ nvs_hist.last # "RetrieveAlarmSettings"
  /\ \E long_press_seconds \in {kAlarmEndButtonPressAndHoldSeconds} :
       preferences' =
         [preferences EXCEPT !["kAlarmLongPressSecondsKey"] = long_press_seconds % 256]
  /\ nvs_hist' = [nvs_hist EXCEPT !.last = "SaveLongPressSeconds", !.others = TRUE]
  /\ UNCHANGED <<mcu, millis, alarm_vars, queue_vars, primary_vars, loop1_vars, wifi_vars,
                 hist_vars, time_vars, page_vars, retrieved>>

\* NvsPreferences::SaveWeatherUnits, 192-197
NvsSaveWeatherUnits ==
  /\ nvs_hist.last # "RetrieveAlarmSettings"
  /\ \E weather_units_metric_not_imperial \in BOOLEAN :
       preferences' =
         [preferences EXCEPT !["kWeatherUnitsMetricNotImperialKey"] =
                               IF weather_units_metric_not_imperial THEN 1 ELSE 0]
  /\ nvs_hist' = [nvs_hist EXCEPT !.last = "SaveWeatherUnits", !.others = TRUE]
  /\ UNCHANGED <<mcu, millis, alarm_vars, queue_vars, primary_vars, loop1_vars, wifi_vars,
                 hist_vars, time_vars, page_vars, retrieved>>

\* NvsPreferences::RetrieveAlarmSettings is called
NvsRetrieveAlarmSettings ==
  /\ nvs_hist.last # "RetrieveAlarmSettings"
  /\ retrieved' = RetrieveAlarmSettingsFn(preferences)
  /\ nvs_hist' = [nvs_hist EXCEPT !.last = "RetrieveAlarmSettings"]
  /\ UNCHANGED <<mcu, millis, alarm_vars, queue_vars, primary_vars, loop1_vars, wifi_vars,
                 hist_vars, time_vars, page_vars, preferences>>

\* calls on the store, one at a time, up to a call of RetrieveAlarmSettings
NvsNext ==
  \/ NvsSaveAlarm
  \/ NvsSaveLongPressSeconds
  \/ NvsSaveWeatherUnits
  \/ NvsRetrieveAlarmSettings

NvsSpec == Init /\ [][NvsNext]_vars

(***************************************************************************)
(* The alarm set page: the alarm of the AlarmClock object and the          *)
(* variables var_1_ .. var_4_ON_ of the set screen.                        *)
(***************************************************************************)

\* alarm_hr_, alarm_min_, alarm_is_AM_, alarm_ON_
Committed(ac) == <<ac.alarm_hr_, ac.alarm_min_, ac.alarm_is_AM_, ac.alarm_ON_>>

\* var_1_, var_2_, var_3_is_AM_, var_4_ON_
Scratch(ac) == <<ac.var_1_, ac.var_2_, ac.var_3_is_AM_, ac.var_4_ON_>>

\* the times and switches the set screen is left with by the user
SetScreenEdits ==
  {<<hr, min, is_AM, on>> : hr \in {1, 7, 12}, min \in {0, 59},
                            is_AM \in BOOLEAN, on \in BOOLEAN}

\* loop(), 236-245: the push button on the main page with the cursor on the
\* alarm calls SetPage(kAlarmSetPage)
SetAlarmPageEnter ==
  /\ AlIdle
  /\ current_page = kMainPage
  /\ sp_stmts' = SetPageBody(kAlarmSetPage, current_page)
  /\ sp_page' = kAlarmSetPage
  /\ sp_target' = kAlarmSetPage
  /\ sp_from' = current_page
  /\ sp_h' = highlight
  /\ sp_done' = {}
  /\ ui_done' = IF Scratch(alarm_clock) # Committed(alarm_clock) THEN {"leftovers"} ELSE {}
  /\ UNCHANGED <<mcu, millis, alarm_vars, nvs_vars, queue_vars, primary_vars, loop1_vars, wifi_vars,
                 hist_vars, time_vars, current_page, highlight, screensaver_on, alarm_clock,
                 inactivity_millis, ui_handler, ui_input, ui_page, since_input_ms>>

\* display->SetAlarmScreen with process_user_input: the user changes the
\* variables of the set screen
SetAlarmScreenEdit ==
  /\ AlIdle
  /\ current_page = kAlarmSetPage
  /\ \E edit \in SetScreenEdits :
       alarm_clock' = [alarm_clock EXCEPT !.var_1_ = edit[1], !.var_2_ = edit[2],
                                          !.var_3_is_AM_ = edit[3], !.var_4_ON_ = edit[4]]
  /\ UNCHANGED <<mcu, millis, alarm_vars, nvs_vars, queue_vars, primary_vars, loop1_vars, wifi_vars,
                 hist_vars, time_vars, current_page, highlight, screensaver_on, sp_stmts,
                 sp_page, sp_target, sp_from, sp_h, sp_done, ui_vars>>

\* display->SetAlarmScreen with process_user_input, "Set": the variables of
\* the set screen become the alarm, the alarm is saved and the main page set
SetAlarmScreenSet ==
  /\ AlIdle
  /\ current_page = kAlarmSetPage
  /\ alarm_clock' = [alarm_clock EXCEPT !.alarm_hr_ = alarm_clock.var_1_,
                                        !.alarm_min_ = alarm_clock.var_2_,
                                        !.alarm_is_AM_ = alarm_clock.var_3_is_AM_,
                                        !.alarm_ON_ = alarm_clock.var_4_ON_]
  /\ preferences' = SaveAlarmFn(preferences, alarm_clock.var_1_, alarm_clock.var_2_,
                                alarm_clock.var_3_is_AM_, alarm_clock.var_4_ON_)
  /\ nvs_hist' = [last |-> "SaveAlarm", others |-> FALSE, args |-> Scratch(alarm_clock)]
  /\ sp_stmts' = <<Stmt("SetPage", kMainPage)>>
  /\ UNCHANGED <<mcu, millis, alarm_vars, retrieved, queue_vars, primary_vars, loop1_vars, wifi_vars,
                 hist_vars, time_vars, current_page, highlight, screensaver_on, sp_page,
                 sp_target, sp_from, sp_h, sp_done, ui_vars>>

\* display->SetAlarmScreen with process_user_input, "Cancel": the main page
\* is set, the variables of the set screen stay as the user left them
SetAlarmScreenCancel ==
  /\ AlIdle
  /\ current_page = kAlarmSetPage
  /\ sp_stmts' = <<Stmt("SetPage", kMainPage)>>
  /\ UNCHANGED <<mcu, millis, alarm_vars, nvs_vars, queue_vars, primary_vars, loop1_vars, wifi_vars,
                 hist_vars, time_vars, current_page, highlight, screensaver_on, alarm_clock,
                 sp_page, sp_target, sp_from, sp_h, sp_done, ui_vars>>

\* loop(), 453-462: nothing was touched for kInactivityMillisLimit, the
\* screensaver takes over from the page shown
SetAlarmInactivity ==
  /\ AlIdle
  /\ current_page # kScreensaverPage
  /\ sp_stmts' = <<Stmt("SetPage", kScreensaverPage)>>
  /\ UNCHANGED <<mcu, millis, alarm_vars, nvs_vars, queue_vars, primary_vars, loop1_vars, wifi_vars,
                 hist_vars, time_vars, current_page, highlight, screensaver_on, alarm_clock,
                 sp_page, sp_target, sp_from, sp_h, sp_done, ui_vars>>

\* loop(), 215-221: an input ends the screensaver
SetAlarmScreensaverEnds ==
  /\ AlIdle
  /\ current_page = kScreensaverPage
  /\ sp_stmts' = <<Stmt("SetPage", kMainPage)>>
  /\ UNCHANGED <<mcu, millis, alarm_vars, nvs_vars, queue_vars, primary_vars, loop1_vars, wifi_vars,
                 hist_vars, time_vars, current_page, highlight, screensaver_on, alarm_clock,
                 sp_page, sp_target, sp_from, sp_h, sp_done, ui_vars>>

\* the alarm set page, the screensaver and the serial command 'a'
SetAlarmNext ==
  \/ SetAlarmPageEnter
  \/ AlarmSetPageStmt
  \/ SetAlarmScreenEdit
  \/ SetAlarmScreenSet
  \/ SetAlarmScreenCancel
  \/ SetAlarmInactivity
  \/ SetAlarmScreensaverEnds
  \/ SerialToggleAlarm

SetAlarmSpec == AlarmInit /\ [][SetAlarmNext]_vars

(***************************************************************************)
(* The time update of the night: the minute block of loop() around 2 AM,   *)
(* the clock in 12 hour or in 24 hour mode.  Here rtc.time counts through  *)
(* NightTimes.                                                             *)
(***************************************************************************)

\* the minutes of a day the clock is followed through
NightTimes == <<Time12(1, 59, TRUE), Time12(2, 0, TRUE), Time12(2, 1, TRUE), Time12(2, 0, FALSE)>>

\* rtc->hourModeAndAmPm(): 0 in 24 hour mode, 1 for AM and 2 for PM in 12
\* hour mode (PrepareTimeDayDateArrays, 711-720)
hourModeAndAmPm(r) ==
  IF ~r.mode_12hour THEN 0 ELSE IF NightTimes[r.time].am THEN 1 ELSE 2

\* rtc->hour(): 1..12 in 12 hour mode, 0..23 in 24 hour mode
hour(r) ==
  LET t == NightTimes[r.time] IN
    IF r.mode_12hour THEN t.hour ELSE (t.hour % 12) + (IF t.am THEN 0 ELSE 12)

\* rtc->minute()
minute(r) == NightTimes[r.time].minute

\* the condition with the clock's hour alone
TimeUpdateDue_AnyMode(r) == hour(r) = 2 /\ minute(r) = 0

\* loop(), 433
TimeUpdateDue(r) == hourModeAndAmPm(r) = 1 /\ hour(r) = 2 /\ minute(r) = 0

\* the clock pulse of a new minute
NightNewMinute ==
  /\ AlIdle
  /\ ~rtc_hw_sec_update_
  /\ rtc' = [rtc EXCEPT !.time = (rtc.time % Len(NightTimes)) + 1,
                        !.rtc_hw_min_update_ = TRUE]
  /\ rtc_hw_sec_update_' = TRUE
  /\ UNCHANGED <<mcu, millis, nvs_vars, queue_vars, primary_vars, loop1_vars, wifi_vars, hist_vars,
                 wait_ms, wdt_ms, page_vars, buzzer, episode>>

\* ProcessSerialInput, case 'f': toggle 12 / 24 hour mode
SerialToggleHourMode ==
  /\ AlIdle
  /\ rtc' = [rtc EXCEPT !.mode_12hour = (hourModeAndAmPm(rtc) = 0)]
  /\ UNCHANGED <<mcu, millis, nvs_vars, queue_vars, primary_vars, loop1_vars, wifi_vars, hist_vars,
                 time_vars, page_vars, buzzer, episode>>

\* loop(), 386-438: the new second and the new minute; at 2 AM
\* AddSecondCoreTaskIfNotThere(kUpdateTimeFromNtpServer) is called
NightLoopSecond ==
  /\ AlIdle
  /\ rtc_hw_sec_update_
  /\ rtc_hw_sec_update_' = FALSE
  /\ rtc' = [rtc EXCEPT !.rtc_hw_min_update_ = FALSE]
  /\ IF rtc.rtc_hw_min_update_ /\ TimeUpdateDue(rtc)
       THEN pc0' = "add_if" /\ task' = kUpdateTimeFromNtpServer /\ ret0' = "alarm"
       ELSE UNCHANGED <<pc0, task, ret0>>
  /\ UNCHANGED <<mcu, millis, nvs_vars, queue_vars, loop1_vars, wifi_vars, hist_vars, wait_ms, wdt_ms,
                 page_vars, buzzer, episode>>

\* the minutes around 2 AM, the serial command 'f', the enqueue and loop1
NightNext ==
  \/ NightNewMinute
  \/ SerialToggleHourMode
  \/ NightLoopSecond
  \/ AddIf
  \/ AddPush
  \/ AddSet
  \/ Loop1Step

NightSpec == AlarmInit /\ [][NightNext]_vars

(***************************************************************************)
(* Properties of the task queue                                            *)
(***************************************************************************)
InQueue(k) == k \in Range(second_core_tasks_queue)

\* the primary context has pushed k and has not yet set its flag
MidEnqueue(k) == pc0 = "add_set" /\ task = k

\* loop1 has taken k from the front and has not yet popped it
Executing(k) == pc1 \in {"dispatch", "retry", "pop"} /\ current_task = k

\* a step of the primary context that pushes k
Accepts(k) == pc0 = "add_push" /\ pc0' = "add_set" /\ task = k

Pops == Len(second_core_tasks_queue') < Len(second_core_tasks_queue)
Pushes == Len(second_core_tasks_queue') > Len(second_core_tasks_queue)
Clears(k) == second_core_task_added_flag_array[k] /\ ~second_core_task_added_flag_array'[k]
Sets(k) == ~second_core_task_added_flag_array[k] /\ second_core_task_added_flag_array'[k]

NoDuplicateTask ==
  \A i, j \in DOMAIN second_core_tasks_queue :
    i # j => second_core_tasks_queue[i] # second_core_tasks_queue[j]

\* C1: under every interleaving of AddSecondCoreTaskIfNotThere with loop1 the
\* queue never holds a task kind twice, and a call that finds the flag of
\* its kind set returns leaving the queue and the flag array as they were.
C1_QueueNeverHoldsAKindTwice ==
  /\ []NoDuplicateTask
  /\ [][(pc0 = "add_if" /\ second_core_task_added_flag_array[task] /\ pc0' # pc0)
          => (pc0' = ret0 /\ UNCHANGED queue_vars)]_vars

\* a call for a kind that is queued with its flag set
C1_Witness ==
  /\ pc0 = "add_if"
  /\ second_core_task_added_flag_array[task]
  /\ InQueue(task)

\* the bookkeeping shared by the two statements of C2: pushes and pops of a
\* kind alternate, the task loop1 works on is the one at the front until
\* it is popped, and a kind is pushed only while loop1 holds none of it
OncePerAccept ==
  /\ \A k \in SecondCoreTask :
       /\ accepted_not_processed[k] \in {0, 1}
       /\ accepted_not_processed[k] = 1 <=> InQueue(k)
  /\ \A k \in SecondCoreTask :
       Executing(k) => /\ second_core_tasks_queue # <<>>
                       /\ Head(second_core_tasks_queue) = k

AcceptedOnlyWhenProcessed ==
  \A k \in SecondCoreTask : Accepts(k) => ~InQueue(k) /\ current_task # k

C3_FlagClearedOnlyAfterPop ==
  /\ [](\A k \in SecondCoreTask :
          (InQueue(k) \/ Executing(k)) /\ ~MidEnqueue(k)
            => second_core_task_added_flag_array[k])
  /\ [][\A k \in SecondCoreTask :
          Clears(k) => pc1 = "clear" /\ current_task = k /\ ~InQueue(k)]_vars

\* the primary context asks for the kind loop1 is executing
C3_Witness ==
  /\ pc0 = "add_if"
  /\ Executing(task)
  /\ second_core_task_added_flag_array[task]

Fetches == {kGetWeatherInfo, kUpdateTimeFromNtpServer}

\* C4 as stated: for every kind a failed first attempt is followed by
\* exactly one more, never more than two are made, and the task is popped.
C4_Original_EveryKindRetriedOnce ==
  /\ pc1 = "pop" => attempts <= 2 /\ (attempts = 1 => success)
  /\ pc1 = "clear" => ~InQueue(current_task)

\* C4 (amended): for kGetWeatherInfo and kUpdateTimeFromNtpServer a failed
\* first attempt is followed by exactly one more; every other kind is
\* attempted at most once, also when that attempt fails; no kind is
\* attempted more than twice, and the task is popped whatever the result.
C4_FetchesRetriedOnce ==
  /\ pc1 = "pop" =>
       /\ attempts <= 2
       /\ current_task \in Fetches /\ attempts = 1 => success
       /\ current_task \notin Fetches => attempts <= 1
  /\ pc1 = "retry" => current_task \in Fetches /\ attempts = 1 /\ ~success
  /\ pc1 = "clear" => ~InQueue(current_task)

\* a fetch popped after two failed attempts
C4_Witness ==
  /\ pc1 = "clear"
  /\ current_task \in Fetches
  /\ attempts = 2
  /\ ~success

\* a call of AddSecondCoreTaskIfNotThere(k) would push k
Enqueueable(k) ==
  /\ ~second_core_task_added_flag_array[k]
  /\ ~InQueue(k)
  /\ ~MidEnqueue(k)

\* C5: with the second context scheduled fairly, every task accepted into
\* the queue is eventually dequeued and its kind becomes enqueueable again
\* (flag false), whatever the result of its operation.
C5_AcceptedKindBecomesEnqueueableAgain ==
  \A k \in Requested : InQueue(k) ~> Enqueueable(k)

\* the second context is the one running loop1
InSecondContext == loop1_caller = "core1"

\* C6 as stated: the queue is popped and flags are cleared by the second
\* context only, and pushed and set by the primary context only.
C6_Original_PrimaryNeverPops ==
  [][/\ (Pops \/ \E k \in SecondCoreTask : Clears(k)) => InSecondContext
     /\ (Pushes \/ \E k \in SecondCoreTask : Sets(k)) => pc0 \in {"add_push", "add_set"}]_vars

\* C6 (amended): pushes and sets happen only in AddSecondCoreTaskIfNotThere
\* and pops and clears only in loop1; on the dual core builds loop1 runs in
\* the second context, on the single core build the primary context runs it
\* inline from loop() and from WaitForExecutionOfSecondCoreTask.
C6_OnlyLoop1PopsOnlyAddPushes ==
  [][/\ (Pops \/ \E k \in SecondCoreTask : Clears(k)) =>
          /\ pc1 \in {"pop", "clear"}
          /\ pc0' = pc0
          /\ IF DualCore(mcu)
               THEN InSecondContext
               ELSE pc0 = "loop1" /\ loop1_caller \in {"loop", "WaitForExecutionOfSecondCoreTask"}
     /\ (Pushes \/ \E k \in SecondCoreTask : Sets(k)) =>
          /\ pc0 \in {"add_push", "add_set"}
          /\ pc1' = pc1]_vars

\* the single core build popping inside WaitForExecutionOfSecondCoreTask
C6_Witness ==
  /\ ~DualCore(mcu)
  /\ loop1_caller = "WaitForExecutionOfSecondCoreTask"
  /\ pc1 = "clear"

(***************************************************************************)
(* Properties of the wait and of the watchdog                              *)
(***************************************************************************)
\* the primary context is inside WaitForExecutionOfSecondCoreTask
InWait ==
  \/ pc0 = "wait"
  \/ pc0 = "loop1" /\ loop1_caller = "WaitForExecutionOfSecondCoreTask"

\* C7 as stated: on every build the wait is over once the timeout
\* kWatchdogTimeoutMs - 3000 has elapsed.
C7_Original_WaitBoundedOnEveryVariant ==
  InWait => wait_ms <= kWatchdogTimeoutMs(mcu) - 3000

\* C7 (amended): on the dual core builds the wait polls only while the queue
\* is non-empty and less than kWatchdogTimeoutMs - 3000 has elapsed, and
\* returns to its caller only when the queue is empty or that time has
\* elapsed; that time is below the watchdog timeout for both values (5300 <
\* 8300, 7000 < 10000). On the single core build the wait is a call of
\* loop1, which returns only with the queue drained, whatever time it takes.
C7_WaitBoundedOnDualCoreBuilds ==
  /\ \A m \in McuVariants :
       /\ kWatchdogTimeoutMs(m) \in {8300, 10000}
       /\ kWatchdogTimeoutMs(m) - 3000 < kWatchdogTimeoutMs(m)
  /\ [](pc0 = "wait" => DualCore(mcu) /\ wait_ms <= kWatchdogTimeoutMs(mcu) - 3000)
  /\ [][pc0 = "wait" /\ pc0' = "wait" /\ wait_ms' # wait_ms =>
          /\ second_core_tasks_queue # <<>>
          /\ wait_ms < kWatchdogTimeoutMs(mcu) - 3000]_vars
  /\ [][pc0 = "wait" /\ pc0' \notin {"wait", "watchdog"} =>
          /\ pc0' = ret0
          /\ \/ second_core_tasks_queue = <<>>
             \/ wait_ms >= kWatchdogTimeoutMs(mcu) - 3000]_vars
  /\ [][InWait /\ pc0 = "loop1" /\ pc0' \notin {"loop1", "watchdog"} =>
          /\ pc0' = ret0
          /\ second_core_tasks_queue' = <<>>]_vars

\* the wait of a dual core build at its timeout with a task still queued
C7_Witness ==
  /\ pc0 = "wait"
  /\ mcu = "MCU_IS_ESP32_WROOM_DA_MODULE"
  /\ second_core_tasks_queue # <<>>
  /\ wait_ms = kWatchdogTimeoutMs(mcu) - 3000

\* C8: on the dual core builds, where no time but the polling of the wait is
\* counted, the time since the last ResetWatchdog of loop() never exceeds
\* kWatchdogTimeoutMs.
C8_WatchdogResetWithinInterval ==
  DualCore(mcu) => wdt_ms <= kWatchdogTimeoutMs(mcu)

(***************************************************************************)
(* Properties of SetPage                                                   *)
(***************************************************************************)
\* the cursor position SetPage gives each page that has one
DefaultCursor ==
  [page \in {kMainPage, kScreensaverPage, kAlarmSetPage, kSettingsPage,
             kWiFiSettingsPage, kSoftApInputsPage, kWeatherSettingsPage,
             kLocationInputsPage} |->
     CASE page = kAlarmSetPage -> kAlarmSetPageHour
       [] page = kSettingsPage -> kSettingsPageWiFi
       [] page = kWiFiSettingsPage -> kWiFiSettingsPageConnect
       [] page = kSoftApInputsPage -> kSoftApInputsPageSave
       [] page = kWeatherSettingsPage -> kWeatherSettingsPageFetch
       [] page = kLocationInputsPage -> kLocationInputsPageSave
       [] OTHER -> kCursorNoSelection]

\* the cases of the switch that reset highlight, themselves or in the
\* nested call they end with
ResetsHighlight ==
  ScreenPage \ {kAlarmTriggeredPage, kTimeSetPage, kFirmwareUpdatePage, kNoPageSelected}

\* the step with which the call of SetPage in progress returns
SetPageReturns == sp_stmts # <<>> /\ sp_stmts' = <<>>

\* C9 as stated: for every page p and every prior highlight, when SetPage(p)
\* returns highlight is the default cursor position of the page that is
\* then current.
C9_Original_HighlightResetForEveryPage ==
  [][SetPageReturns =>
       /\ current_page' \in DOMAIN DefaultCursor
       /\ highlight' = DefaultCursor[current_page']]_vars

\* C9 (amended): for every page p but kAlarmTriggeredPage, kTimeSetPage,
\* kFirmwareUpdatePage and kNoPageSelected, and every prior highlight, when
\* SetPage(p) returns highlight is the default cursor position of the page
\* that is then current. SetPage(kAlarmTriggeredPage) changes current_page
\* and keeps the prior highlight; for the other three SetPage changes
\* neither current_page nor highlight.
C9_HighlightResetForPagesWithCursor ==
  [][SetPageReturns =>
       IF sp_page \in ResetsHighlight
         THEN /\ current_page' \in DOMAIN DefaultCursor
              /\ highlight' = DefaultCursor[current_page']
         ELSE /\ highlight' = sp_h
              /\ current_page' = IF sp_page = kAlarmTriggeredPage
                                   THEN kAlarmTriggeredPage
                                   ELSE sp_from]_vars

\* SetPage(kEnterWiFiSsidPage) has returned: it was called with the cursor
\* on the SSID row and has left it on the default row of the WiFi page
C9_Witness ==
  /\ sp_stmts = <<>>
  /\ sp_page = kEnterWiFiSsidPage
  /\ "InstantHighlightResponse" \in sp_done
  /\ sp_h = kWiFiSettingsPageSetSsidPasswd
  /\ current_page = kWiFiSettingsPage
  /\ highlight = kWiFiSettingsPageConnect

\* the calls with which SetPage enters a page: its render call, the start
\* of the screensaver, the on-screen text input
EntryOps ==
  {"DisplayTimeUpdate", "ScreensaverControl(true)", "SetAlarmScreen",
   "AlarmTriggeredScreen", "SettingsPage", "WiFiSettingsPage", "SoftApInputsPage",
   "WeatherSettingsPage", "LocationInputsLocalServerPage", "GetUserOnScreenTextInput"}

\* the step that runs statement op of SetPage
Runs(op) == sp_stmts # <<>> /\ Head(sp_stmts).op = op /\ sp_stmts' # sp_stmts

EntryRuns == \E op \in EntryOps : Runs(op)

\* the page SetPage(page) writes to current_page: the text input pages are
\* shown as part of their settings page
PageWritten(page) ==
  CASE page \in {kEnterWiFiSsidPage, kEnterWiFiPasswdPage} -> kWiFiSettingsPage
    [] page \in {kEnterWeatherLocationZipPage, kEnterWeatherLocationCountryCodePage} ->
         kWeatherSettingsPage
    [] OTHER -> page

\* the pages whose case resets highlight before its entry call
HighlightBeforeEntry ==
  {kMainPage, kAlarmSetPage, kSettingsPage, kWiFiSettingsPage, kSoftApInputsPage,
   kWeatherSettingsPage, kLocationInputsPage}

\* C10 as stated: in every call of SetPage current_page is written, then
\* highlight is reset, and only then the entry call of the target page runs.
C10_Original_PageThenHighlightThenEntry ==
  [][/\ Runs("highlight") => "current_page" \in sp_done
     /\ EntryRuns => "current_page" \in sp_done /\ "highlight" \in sp_done]_vars

\* C10 (amended): in every call of SetPage the entry call of the target
\* page (render call, screensaver start, text input) runs after current_page
\* has been written, and so does the reset of highlight. The reset of
\* highlight comes before the entry call for the main, alarm set, settings,
\* WiFi settings, soft AP, weather settings and location inputs pages; the
\* screensaver is started, the alarm triggered screen is drawn and the text
\* input of the four text input pages runs with the highlight of before the
\* call.
C10_PageWrittenBeforeEntry ==
  [][/\ Runs("highlight") => "current_page" \in sp_done
     /\ EntryRuns =>
          /\ "current_page" \in sp_done
          /\ current_page = PageWritten(sp_target)
          /\ IF sp_target \in HighlightBeforeEntry
               THEN "highlight" \in sp_done /\ highlight = DefaultCursor[sp_target]
               ELSE "highlight" \notin sp_done /\ highlight = sp_h]_vars

\* SetPage(kSettingsPage), called from another page with the cursor not on
\* the settings page's default row, has drawn the settings page
C10_Witness ==
  /\ sp_target = kSettingsPage
  /\ "SettingsPage" \in sp_done
  /\ sp_stmts # <<>>
  /\ sp_from # kSettingsPage
  /\ sp_h # kSettingsPageWiFi
  /\ current_page = kSettingsPage
  /\ highlight = kSettingsPageWiFi

(***************************************************************************)
(* Properties of loop() as the caller of SetPage and MoveCursor            *)
(***************************************************************************)
\* C11: whenever current_page leaves kScreensaverPage, whatever the target
\* of SetPage, ScreensaverControl(false) has been run: the screensaver
\* canvas exists only while current_page is kScreensaverPage
C11_CanvasOnlyOnScreensaverPage == screensaver_on => current_page = kScreensaverPage

\* the pages without a case in the switch of SetPage
UnprogrammedPages == {kTimeSetPage, kFirmwareUpdatePage, kNoPageSelected}

\* current_page and highlight after the statements stmts of SetPage
RECURSIVE RunSetPage(_, _, _)
RunSetPage(stmts, page, h) ==
  IF stmts = <<>> THEN <<page, h>>
  ELSE IF Head(stmts).op = "SetPage"
    THEN RunSetPage(SetPageBody(Head(stmts).arg, page) \o Tail(stmts), page, h)
  ELSE RunSetPage(Tail(stmts), CurrentPageAfter(Head(stmts), page),
                  HighlightAfter(Head(stmts), h))

\* the statements of SetPage(page) touch neither the screensaver canvas
\* nor the task queue
OnlyDraws(page) ==
  \A i \in DOMAIN SetPageBody(page, current_page) :
    SetPageBody(page, current_page)[i].op \in
      SetPageOps \ {"SetPage", "ScreensaverControl(true)", "ScreensaverControl(false)"}

\* the block of ProcessSerialInput for a character without a case
InUnrecognizedInput(handler, input) == handler = "serial" /\ input = "?"

\* C12: SetPage with a page that has no case (kTimeSetPage,
\* kFirmwareUpdatePage, kNoPageSelected) and ProcessSerialInput with a
\* character that has no case leave current_page, highlight, the task
\* queue and the flags as they are
C12_UnprogrammedInputsChangeNothing ==
  /\ [](\A page \in UnprogrammedPages :
         /\ RunSetPage(SetPageBody(page, current_page), current_page, highlight)
              = <<current_page, highlight>>
         /\ OnlyDraws(page))
  /\ [][InUnrecognizedInput(ui_handler, ui_input) \/ InUnrecognizedInput(ui_handler', ui_input')
         => UNCHANGED <<current_page, highlight, queue_vars>>]_vars

\* the unrecognized character has been reported away from the main page
C12_Witness ==
  /\ InUnrecognizedInput(ui_handler, ui_input)
  /\ "Serial.println" \in ui_done
  /\ current_page = kSettingsPage
  /\ highlight = kSettingsPageWeather

\* the task that starts the server of a page with a local server
StartTask(page) ==
  IF page = kSoftApInputsPage THEN kStartSetWiFiSoftAP ELSE kStartLocationInputsLocalServer

\* the statement of SetPage that draws the page
PageEntry(page) ==
  IF page = kSoftApInputsPage THEN "SoftApInputsPage" ELSE "LocationInputsLocalServerPage"

\* C13: when current_page becomes kSoftApInputsPage or kLocationInputsPage,
\* the task that starts the page's server (kStartSetWiFiSoftAP,
\* kStartLocationInputsLocalServer) has been run to its end before the
\* page is drawn: it is no longer waiting in the queue or being run
C13_ServerStartedBeforePageEntry ==
  \A page \in {kSoftApInputsPage, kLocationInputsPage} :
    UiAt({PageEntry(page)}) =>
      /\ ~InQueue(StartTask(page))
      /\ ~Executing(StartTask(page))
      /\ accepted_not_processed[StartTask(page)] = 0

\* the pages with a cursor menu
MenuPages ==
  {kMainPage, kAlarmSetPage, kSettingsPage, kWiFiSettingsPage, kSoftApInputsPage,
   kWeatherSettingsPage, kLocationInputsPage}

\* the first Cursor value of the page in the enum (common.h, 82-114)
FirstItem(page) ==
  CASE page = kMainPage -> kMainPageSettingsWheel
    [] page = kAlarmSetPage -> kAlarmSetPageHour
    [] page = kSettingsPage -> kSettingsPageWiFi
    [] page = kWiFiSettingsPage -> kWiFiSettingsPageSetSsidPasswd
    [] page = kSoftApInputsPage -> kSoftApInputsPageSave
    [] page = kWeatherSettingsPage -> kWeatherSettingsPageSetLocation
    [] OTHER -> kLocationInputsPageSave

\* the last Cursor value of the page in the enum
LastItem(page) ==
  CASE page = kMainPage -> kMainPageSetAlarm
    [] page = kAlarmSetPage -> kAlarmSetPageCancel
    [] page = kSettingsPage -> kSettingsPageCancel
    [] page = kWiFiSettingsPage -> kWiFiSettingsPageCancel
    [] page = kSoftApInputsPage -> kSoftApInputsPageCancel
    [] page = kWeatherSettingsPage -> kWeatherSettingsPageCancel
    [] OTHER -> kLocationInputsPageCancel

\* MoveCursor(increment) is the next statement of loop()
MoveCursorCalled(increment) ==
  UiAt({"MoveCursor"}) /\ Head(sp_stmts).arg = (IF increment THEN 1 ELSE 0)

\* C14: on the main page MoveCursor(true) from kMainPageSetAlarm gives
\* kCursorNoSelection, MoveCursor(false) from kCursorNoSelection gives
\* kMainPageSetAlarm, and every other move is one step within
\* kCursorNoSelection, kMainPageSettingsWheel, kMainPageSetAlarm
C14_MainPageCursorWraps ==
  [][\A increment \in BOOLEAN :
       MoveCursorCalled(increment) /\ current_page = kMainPage =>
         (/\ highlight \in kCursorNoSelection .. kMainPageSetAlarm
          /\ highlight' \in kCursorNoSelection .. kMainPageSetAlarm
          /\ highlight' =
               IF increment
                 THEN (IF highlight = kMainPageSetAlarm THEN kCursorNoSelection
                       ELSE highlight + 1)
                 ELSE (IF highlight = kCursorNoSelection THEN kMainPageSetAlarm
                       ELSE highlight - 1))]_vars

\* the increment button has moved the cursor of the main page from no
\* selection to its last item
C14_Witness ==
  /\ ui_handler = "input"
  /\ ui_input = "inc"
  /\ "MoveCursor" \in ui_done
  /\ current_page = kMainPage
  /\ highlight = kMainPageSetAlarm

C16_Original_EveryMenuWrapsThroughNoSelection ==
  [][/\ MoveCursorCalled(TRUE) /\ current_page \in MenuPages
          /\ highlight = LastItem(current_page)
          => highlight' = kCursorNoSelection
     /\ MoveCursorCalled(FALSE) /\ current_page \in MenuPages
          /\ highlight = kCursorNoSelection
          => highlight' = LastItem(current_page)]_vars

\* C16: the main page and the alarm set page wrap through
\* kCursorNoSelection; the settings, WiFi settings and weather settings
\* pages wrap from the last item to the first and back and never show
\* kCursorNoSelection; the soft AP and location inputs pages go from Save
\* to Cancel and from Cancel to Save in both directions
C16_MenuWraps ==
  [][\A increment \in BOOLEAN :
       MoveCursorCalled(increment) /\ current_page \in MenuPages =>
        (CASE current_page \in {kMainPage, kAlarmSetPage} ->
                /\ increment /\ highlight = LastItem(current_page)
                     => highlight' = kCursorNoSelection
                /\ ~increment /\ highlight = kCursorNoSelection
                     => highlight' = LastItem(current_page)
           [] current_page \in {kSettingsPage, kWiFiSettingsPage, kWeatherSettingsPage} ->
                /\ highlight # kCursorNoSelection
                /\ highlight' # kCursorNoSelection
                /\ increment /\ highlight = LastItem(current_page)
                     => highlight' = FirstItem(current_page)
                /\ ~increment /\ highlight = FirstItem(current_page)
                     => highlight' = LastItem(current_page)
           [] OTHER ->
                /\ highlight \in {FirstItem(current_page), LastItem(current_page)}
                /\ highlight' \in {FirstItem(current_page), LastItem(current_page)}
                /\ highlight' # highlight)]_vars

\* the decrement button has moved the cursor of the settings page from
\* its last item to its first
C16_Witness ==
  /\ ui_handler = "input"
  /\ ui_input = "dec"
  /\ "MoveCursor" \in ui_done
  /\ current_page = kSettingsPage
  /\ highlight = kSettingsPageWiFi

\* the highlights of a menu page: its own Cursor values and
\* kCursorNoSelection, and the long press seconds row of the settings page
PageCursors(page) ==
  (FirstItem(page) .. LastItem(page)) \cup {kCursorNoSelection}
  \cup (IF page = kSettingsPage THEN {kSettingsPageAlarmLongPressSeconds} ELSE {})

\* highlight++ or highlight-- of MoveCursor at the end of the Cursor enum
GlobalWrap(h, increment) ==
  IF increment THEN ~(h < kCursorMaxValue - 1) /\ Increment(h) = kCursorNoSelection
  ELSE ~(h > kCursorNoSelection) /\ Decrement(h) = kCursorMaxValue - 1

\* C17: between the blocks of loop(), on a menu page highlight is
\* kCursorNoSelection or a Cursor value of that page (or the long press
\* seconds row on the settings page); a call of MoveCursor leaves
\* highlight among them and never comes to the wrap of operator++ and
\* operator-- at kCursorMaxValue
C17_HighlightStaysOnItsPage ==
  /\ [](UiIdle /\ current_page \in MenuPages => highlight \in PageCursors(current_page))
  /\ [][\A increment \in BOOLEAN :
          MoveCursorCalled(increment) /\ current_page \in MenuPages =>
            (/\ highlight \in PageCursors(current_page)
             /\ highlight' \in PageCursors(current_page)
             /\ highlight' = (IF increment THEN Increment(highlight) ELSE Decrement(highlight))
                  => ~GlobalWrap(highlight, increment))]_vars

\* the increment button has moved the cursor of the location inputs page
\* to the last value of the Cursor enum
C17_Witness ==
  /\ ui_handler = "input"
  /\ ui_input = "inc"
  /\ "MoveCursor" \in ui_done
  /\ current_page = kLocationInputsPage
  /\ highlight = kLocationInputsPageCancel

\* the input block of loop() is at its instant page change
AtRouting == ui_handler = "input" /\ UiAt({"page change"})

\* C18: loop() routes an input only when inactivity_millis is at least
\* kUserInputDelayMs; a routed input has set the maximum brightness and
\* reset inactivity_millis to 0 before anything is routed; two inputs are
\* routed at least kUserInputDelayMs apart; and inactivity_millis decreases
\* only where a statement assigns 0 to it
C18_RoutedInputsDebounced ==
  /\ [](AtRouting =>
          /\ inactivity_millis = 0
          /\ ui_done = {"display->SetMaxBrightness", "inactivity_millis = 0"})
  /\ [][/\ (ui_handler = "none" /\ ui_handler' = "input") =>
            (/\ inactivity_millis >= kUserInputDelayMs
             /\ since_input_ms >= kUserInputDelayMs)
        /\ (inactivity_millis' < inactivity_millis) =>
            (inactivity_millis' = 0 /\ UiAt({"inactivity_millis = 0"}))]_vars

\* an input is routed on the settings page, which only earlier routed
\* inputs can have opened
C18_Witness ==
  /\ AtRouting
  /\ current_page = kSettingsPage
  /\ since_input_ms = 0
  /\ inactivity_millis = 0

\* the input block of loop() is past its instant page change
PastPageChange ==
  /\ ui_handler = "input"
  /\ "page change" \in ui_done
  /\ UiAt({"buttons"}) \/ "buttons" \in ui_done

\* C19: an input routed while current_page is kScreensaverPage has made
\* current_page kMainPage, with the screensaver canvas freed, by the time
\* the instant page change is over, and it stays so to the end of the pass
C19_InputEndsScreensaver ==
  (PastPageChange /\ ui_page = kScreensaverPage) =>
    (current_page = kMainPage /\ ~screensaver_on)

\* the screensaver was running and a touch with the push button held has
\* been routed to its end
C19_Witness ==
  /\ PastPageChange
  /\ UiAt({"return"})
  /\ ui_page = kScreensaverPage
  /\ ui_input = "ts+push"
  /\ current_page = kMainPage
  /\ ~screensaver_on

\* a touch has been routed on a page other than the screensaver and the
\* alarm set page, and the step is the instant page change
TouchPageChange ==
  /\ AtRouting
  /\ Touched(ui_input)
  /\ current_page \notin {kScreensaverPage, kAlarmSetPage}
  /\ "page change" \in ui_done'

\* C20: when a touch is routed while current_page is neither the
\* screensaver nor the alarm set page, ClassifyUserScreenTouchInput is
\* called, and when it returns a page other than kNoPageSelected
\* SetPage(that page) is the next statement of the same pass
C20_TouchIsClassified ==
  [][TouchPageChange =>
       (/\ sp_stmts' # <<>>
        /\ Head(sp_stmts').op = "ClassifyUserScreenTouchInput"
        /\ Head(sp_stmts').arg # kNoPageSelected =>
             (/\ Len(sp_stmts') > 1
              /\ sp_stmts'[2] = Stmt("SetPage", Head(sp_stmts').arg)))]_vars

(***************************************************************************)
(* Properties of the alarm and of the buzzer                               *)
(***************************************************************************)
\* the reading of the clock is the alarm time: hour, minute and AM / PM
TimeMatches == MinuteOfDay(Now) = MinuteOfDay(AlarmTime(alarm_clock))

\* the step of loop() that finds rtc_hw_min_update_ set (398-400)
MinuteBlock ==
  /\ AlIdle
  /\ rtc_hw_sec_update_
  /\ rtc.rtc_hw_min_update_
  /\ ~rtc_hw_sec_update_'

\* the step that takes BuzzAlarmFn from Idle to Ringing
EpisodeStarts == episode.state = "Idle" /\ episode'.state = "Ringing"

\* C21 as stated: at a minute boundary where the clock equals the alarm
\* time and the alarm is on, one episode starts, and no second one in the
\* same calendar minute; with the alarm off no episode starts at a minute
\* that matches
C21_Original_EpisodeAtEveryMatch ==
  /\ [](episode.started <= 1)
  /\ [][/\ (MinuteBlock /\ TimeMatches /\ alarm_clock.alarm_ON_) =>
            (sp_stmts' = CallBuzzAlarmFn)
        /\ (EpisodeStarts /\ TimeMatches) => alarm_clock.alarm_ON_]_vars

\* C21: the minute block of loop() starts an episode exactly when the
\* clock equals the alarm time, the alarm is on and the year of the clock is
\* 2024 or later, and it starts at most one in a calendar minute
C21_OneEpisodePerAlarmMinute ==
  /\ [](episode.started <= 1)
  /\ [][/\ MinuteBlock =>
            ((sp_stmts' = CallBuzzAlarmFn) <=>
               (TimeMatches /\ alarm_clock.alarm_ON_ /\ rtc.year >= 2024))
        /\ (EpisodeStarts /\ ui_handler = "second") =>
            (TimeMatches /\ alarm_clock.alarm_ON_ /\ episode.started = 0)]_vars

\* the episode of this minute is over, a later pass of loop() has taken a
\* new second, and the clock still equals the alarm time
C21_Witness ==
  /\ AlIdle
  /\ episode.state = "Idle"
  /\ episode.started = 1
  /\ TimeMatches
  /\ alarm_clock.alarm_ON_
  /\ ~rtc_hw_sec_update_

\* a poll of the cancel button while the alarm rings
PollStep == AlAt({"Ringing"}) /\ episode'.elapsed_ms # episode.elapsed_ms

\* C22: while the alarm rings the continuous-press counter is 0 at every
\* poll that finds the button released and grows by the time of the poll at
\* every poll that finds it held, and the episode is cancelled only with the
\* button held and the counter at the long press: the time of earlier
\* presses never counts
C22_OnlyUninterruptedPressCancels ==
  /\ [](episode.state = "Cancelled" =>
          (episode.button /\ episode.press_ms >= LongPressMs))
  /\ [][PollStep =>
          IF episode'.button
            THEN episode'.press_ms = episode.press_ms + AlarmTickMs
            ELSE episode'.press_ms = 0 /\ episode'.state # "Cancelled"]_vars

\* the alarm still rings although the button has been held for the long
\* press in all: the press in progress is a fresh one
C22_Witness ==
  /\ episode.state = "Ringing"
  /\ episode.button
  /\ episode.press_ms = AlarmTickMs
  /\ episode.total_press_ms >= LongPressMs

\* C23: an episode leaves Ringing only as Cancelled, with the long press
\* reached, or as TimedOut, at the first poll that finds kAlarmMaxON_TimeMs
\* passed since its start and not before; whatever the button does, an
\* episode that rings comes to its end
C23_EpisodeEndsAtMaxDuration ==
  /\ [](episode.state = "Ringing" => episode.elapsed_ms < kAlarmMaxON_TimeMs)
  /\ [](episode.state = "TimedOut" =>
          /\ episode.elapsed_ms >= kAlarmMaxON_TimeMs
          /\ episode.elapsed_ms < kAlarmMaxON_TimeMs + AlarmTickMs)
  /\ [](episode.state = "Cancelled" => episode.press_ms >= LongPressMs)
  /\ (episode.state = "Ringing") ~> (episode.state = "Idle")

\* the episode has timed out although the button was held again and again,
\* never long enough
C23_Witness ==
  /\ episode.state = "TimedOut"
  /\ episode.elapsed_ms >= kAlarmMaxON_TimeMs
  /\ episode.total_press_ms >= LongPressMs
  /\ episode.press_ms < LongPressMs

\* the buzzer is silent: the timer alarm is off and no timer is allocated
BuzzerReleased == ~buzzer.enabled /\ buzzer.passive_buzzer_timer_ptr_ = "NULL"

\* C24: once an episode is over, cancelled or timed out, the buzzer is
\* disabled and its timer deallocated before BuzzAlarmFn returns; outside
\* an episode the buzzer is never enabled; and the pass of loop() that called
\* BuzzAlarmFn ends on kMainPage with highlight kCursorNoSelection and
\* inactivity_millis 0
C24_CleanupAfterEpisode ==
  /\ episode.state = "Idle" => BuzzerReleased
  /\ AlAt({"GoodMorningScreen", "BuzzAlarmFn returns"}) =>
       (episode.state \in {"Cancelled", "TimedOut"} /\ BuzzerReleased)
  /\ AlAt({"return"}) =>
       /\ BuzzerReleased
       /\ current_page = kMainPage
       /\ highlight = kCursorNoSelection
       /\ inactivity_millis = 0

\* the minute block is at its end after an episode that it started: its
\* last call of SetPage was the one of the main page
C24_Witness ==
  /\ AlAt({"return"})
  /\ ui_handler = "second"
  /\ sp_target = kMainPage
  /\ current_page = kMainPage
  /\ inactivity_millis = 0
  /\ BuzzerReleased

\* the hardware timer of the buzzer exists
TimerAllocated == buzzer.passive_buzzer_timer_ptr_ # "NULL"

OutsideBuzzerDisable == ~AlAt({"digitalWrite(BUZZER_PIN, LOW)"})

\* C26: with the timer callback between any two statements of the primary
\* context, the pin is low whenever the buzzer is not enabled and
\* BuzzerDisable has returned, so from that return to the next BuzzerEnable;
\* the pin goes high only in a call of the callback with the buzzer enabled
\* and the phase a beep
C26_PinLowAfterDisable ==
  /\ []((~buzzer.enabled /\ OutsideBuzzerDisable) => buzzer.pin = "LOW")
  /\ [][(buzzer'.pin = "HIGH" /\ buzzer.pin = "LOW") =>
          /\ buzzer.enabled
          /\ buzzer'.enabled
          /\ buzzer'.beep_toggle_
          /\ buzzer'.buzzer_square_wave_toggle_
          /\ sp_stmts' = sp_stmts]_vars

\* BuzzerDisable has returned after a callback that had left the pin high
\* in a beep
C26_Witness ==
  /\ AlAt({"DeallocateBuzzerTimer"})
  /\ ~buzzer.enabled
  /\ buzzer.pin = "LOW"
  /\ buzzer.beep_toggle_
  /\ buzzer.buzzer_square_wave_toggle_

\* C29: for every hour in 1..12, every minute in 0..59 and both values of
\* the two flags, RetrieveAlarmSettings after SaveAlarm(hr, min, isAm, on)
\* gives (hr, min, isAm, on), whatever was saved under other keys in between
C29_SaveAlarmRoundTrip ==
  (nvs_hist.last = "RetrieveAlarmSettings" /\ nvs_hist.args # <<>>) =>
    retrieved = nvs_hist.args

\* 12:59 PM, alarm on, is retrieved after a save under another key that
\* followed its SaveAlarm
C29_Witness ==
  /\ nvs_hist.last = "RetrieveAlarmSettings"
  /\ nvs_hist.args = <<12, 59, FALSE, TRUE>>
  /\ nvs_hist.others
  /\ preferences["kAlarmLongPressSecondsKey"] # kNoValue
  /\ retrieved = <<12, 59, FALSE, TRUE>>

\* C27 as stated: the alarm changes only in the step of "Set"
C27_Original_OnlySetChangesAlarm ==
  [][Committed(alarm_clock') # Committed(alarm_clock) => SetAlarmScreenSet]_vars

\* C27: the alarm changes only in the step of "Set" on the alarm set page,
\* which makes it what the set screen shows, and in the serial command 'a',
\* which flips alarm_ON_ and nothing else; entering the page, editing,
\* "Cancel", the inactivity timeout and the end of the screensaver leave it
C27_SetOrSerialChangesAlarm ==
  [][Committed(alarm_clock') # Committed(alarm_clock) =>
       \/ /\ SetAlarmScreenSet
          /\ Committed(alarm_clock') = Scratch(alarm_clock)
       \/ /\ SerialToggleAlarm
          /\ Committed(alarm_clock') =
               <<alarm_clock.alarm_hr_, alarm_clock.alarm_min_, alarm_clock.alarm_is_AM_,
                 ~alarm_clock.alarm_ON_>>]_vars

\* back on the main page after a "Cancel" that left 12:59 PM on the set
\* screen, with the alarm still at one of the times it started with
C27_Witness ==
  /\ AlIdle
  /\ current_page = kMainPage
  /\ sp_target = kMainPage
  /\ sp_from = kMainPage
  /\ nvs_hist.args = <<>>
  /\ Scratch(alarm_clock) = <<12, 59, FALSE, TRUE>>
  /\ alarm_clock.alarm_min_ = 0

\* C28: SetPage(kAlarmSetPage) leaves alarm_hr_, alarm_min_, alarm_is_AM_
\* and alarm_ON_ as they are, and when it returns var_1_, var_2_,
\* var_3_is_AM_ and var_4_ON_ are equal to them, whatever they were before
C28_EntryCopiesAlarm ==
  [][(AlAt(SetPageOps) /\ sp_target' = kAlarmSetPage) =>
       /\ Committed(alarm_clock') = Committed(alarm_clock)
       /\ sp_stmts' = <<>> => Scratch(alarm_clock') = Committed(alarm_clock)
       /\ sp_stmts' = <<>> => current_page' = kAlarmSetPage]_vars

\* the copy has been made in a call of SetPage(kAlarmSetPage) that had found
\* other values on the set screen
C28_Witness ==
  /\ AlAt({"SetAlarmScreen"})
  /\ sp_target = kAlarmSetPage
  /\ "leftovers" \in ui_done
  /\ Scratch(alarm_clock) = Committed(alarm_clock)

C31_WiFiOffOnlyWithEmptyQueue ==
  [][(pc1 = "wifi_off" /\ wifi_connected_ /\ ~wifi_connected_') =>
       second_core_tasks_queue = <<>>]_vars

\* C32: on every day, in the minute block of 2:00 AM, loop() calls
\* AddSecondCoreTaskIfNotThere(kUpdateTimeFromNtpServer), in 12 hour mode
\* and in 24 hour mode
C32_TimeUpdateRequestedEveryNight ==
  [][(NightLoopSecond /\ rtc.rtc_hw_min_update_
        /\ NightTimes[rtc.time] = Time12(2, 0, TRUE)) =>
       (pc0' = "add_if" /\ task' = kUpdateTimeFromNtpServer)]_vars

\* the statements still to run have a call of SetPage(kScreensaverPage)
ScreensaverCalled(stmts) == \E i \in DOMAIN stmts : stmts[i] = Stmt("SetPage", kScreensaverPage)

\* C33: the inactivity check of the per-second block calls
\* SetPage(kScreensaverPage) exactly when inactivity_millis is above
\* kInactivityMillisLimit and current_page is not kScreensaverPage, so not
\* again on the screensaver; the call leaves the screensaver page shown with
\* its canvas; and when no more input arrives and the alarm, which is due
\* once a day, no longer rings, the screensaver is shown again and again,
\* from whatever page
C33_InactivityShowsScreensaver ==
  /\ [][(UiAt({"inactivity check"}) /\ sp_stmts' # sp_stmts) =>
          (ScreensaverCalled(sp_stmts') <=>
             (inactivity_millis > kInactivityMillisLimit /\ current_page # kScreensaverPage))]_vars
  /\ []((UiAt({"ResetWatchdog"}) /\ ui_handler = "second" /\ sp_target = kScreensaverPage) =>
          (current_page = kScreensaverPage /\ screensaver_on))
  /\ (<>[][~UserActs /\ ~AlarmRings]_vars) => []<>(current_page = kScreensaverPage)

\* the per-second block that started on the settings page has set the
\* screensaver page after its inactivity check
C33_Witness ==
  /\ UiAt({"ResetWatchdog"})
  /\ ui_handler = "second"
  /\ ui_page = kSettingsPage
  /\ "inactivity check" \in ui_done
  /\ sp_target = kScreensaverPage
  /\ current_page = kScreensaverPage
  /\ screensaver_on

\* the long press seconds of the settings page are being edited
EditMode == current_page = kSettingsPage /\ highlight = kSettingsPageAlarmLongPressSeconds

\* loop() runs the statement op
UiRunsStmt(op) == UiAt({op}) /\ sp_stmts' # sp_stmts

\* C34: in edit mode of the long press seconds the increment and decrement
\* buttons call display->SettingsPage and never MoveCursor, and leave
\* current_page and highlight as they are; the push button assigns highlight
\* only on the settings page, kSettingsPageAlarmLongPressSeconds from
\* kSettingsPageSet and kSettingsPageSet from
\* kSettingsPageAlarmLongPressSeconds, and only the second is followed by
\* SaveLongPressSeconds; the stored value is written by that call alone
C34_LongPressSecondsEditMode ==
  /\ [][(UiRunsStmt("buttons") /\ EditMode /\ Button(ui_input) \in {"inc", "dec"}) =>
          sp_stmts' = <<Stmt("SettingsPage(inc, dec)", 0)>> \o Tail(sp_stmts)]_vars
  /\ []((ui_handler = "input" /\ "SettingsPage(inc, dec)" \in ui_done) =>
          (EditMode /\ "MoveCursor" \notin ui_done))
  /\ [][UiRunsStmt("SettingsPage(inc, dec)") => UNCHANGED <<current_page, highlight, preferences>>]_vars
  /\ [][UiRunsStmt("highlight =") =>
          /\ current_page = kSettingsPage
          /\ Button(ui_input) = "push"
          /\ \/ /\ highlight = kSettingsPageSet
                /\ highlight' = kSettingsPageAlarmLongPressSeconds
                /\ sp_stmts' = <<Stmt("return", 0)>>
             \/ /\ highlight = kSettingsPageAlarmLongPressSeconds
                /\ highlight' = kSettingsPageSet
                /\ Head(sp_stmts') = Stmt("SaveLongPressSeconds", 0)]_vars
  /\ [][UiRunsStmt("SaveLongPressSeconds") =>
          /\ "highlight =" \in ui_done
          /\ current_page = kSettingsPage
          /\ highlight = kSettingsPageSet
          /\ preferences'["kAlarmLongPressSecondsKey"] # kNoValue]_vars
  /\ [][preferences' # preferences => UiRunsStmt("SaveLongPressSeconds")]_vars

\* the push button has left the edit mode and the value is stored
C34_Witness ==
  /\ ui_handler = "input"
  /\ Button(ui_input) = "push"
  /\ UiAt({"return"})
  /\ "SaveLongPressSeconds" \in ui_done
  /\ current_page = kSettingsPage
  /\ highlight = kSettingsPageSet
  /\ preferences["kAlarmLongPressSecondsKey"] = kAlarmEndButtonPressAndHoldSeconds

\* C35 as stated: for every Cursor value, kSettingsPageAlarmLongPressSeconds
\* included, the value after ++ and after -- is below kCursorMaxValue
C35_Original_ResultBelowMax ==
  ui_input \in {"++", "--"} => highlight < kCursorMaxValue

\* C35: ++ gives the next value below kCursorMaxValue - 1 and
\* kCursorNoSelection from there on, so a value below kCursorMaxValue for
\* every Cursor; -- gives kCursorMaxValue - 1 at kCursorNoSelection and the
\* value before otherwise, which is below kCursorMaxValue for the values up
\* to kCursorMaxValue and is kCursorMaxValue itself for
\* kSettingsPageAlarmLongPressSeconds
C35_IncrementBelowMaxDecrementNot ==
  /\ ui_input = "++" =>
       /\ highlight < kCursorMaxValue
       /\ sp_h < kCursorMaxValue - 1 => highlight = sp_h + 1
       /\ sp_h >= kCursorMaxValue - 1 => highlight = kCursorNoSelection
  /\ ui_input = "--" =>
       /\ sp_h = kCursorNoSelection => highlight = kCursorMaxValue - 1
       /\ sp_h > kCursorNoSelection => highlight = sp_h - 1
       /\ sp_h <= kCursorMaxValue => highlight < kCursorMaxValue
       /\ sp_h = kSettingsPageAlarmLongPressSeconds => highlight = kCursorMaxValue

\* -- was applied to kSettingsPageAlarmLongPressSeconds
C35_Witness ==
  /\ ui_input = "--"
  /\ sp_h = kSettingsPageAlarmLongPressSeconds
  /\ highlight = kCursorMaxValue

\* C36: a flag that is set means work is outstanding: the kind is in the
\* queue, or the primary context is inside AddSecondCoreTaskIfNotThere for
\* it, or loop1 has taken it from the front and has not yet cleared its flag
C36_SetFlagMeansWorkOutstanding ==
  \A k \in SecondCoreTask :
    second_core_task_added_flag_array[k] =>
      \/ InQueue(k)
      \/ pc0 \in {"add_push", "add_set"} /\ task = k
      \/ pc1 \in {"dispatch", "retry", "pop", "clear"} /\ current_task = k

\* the task that stops the server of a page
StopTaskOf(page) ==
  IF page = kSoftApInputsPage THEN kStopSetWiFiSoftAP ELSE kStopLocationInputsLocalServer

\* the block of loop() that is running has called
\* AddSecondCoreTaskIfNotThere for the stop task of page: the push button on
\* that page (296-310, 340-355) or the inactivity check (455-458); or the
\* task is still flagged or queued
StopRequested(page) ==
  \/ /\ ui_handler = "input"
     /\ Button(ui_input) = "push"
     /\ ui_page = page
     /\ "AddSecondCoreTaskIfNotThere" \in ui_done
  \/ /\ ui_handler = "second"
     /\ "inactivity check" \in ui_done
     /\ "AddSecondCoreTaskIfNotThere" \in ui_done
  \/ second_core_task_added_flag_array[StopTaskOf(page)]
  \/ InQueue(StopTaskOf(page))

\* C37: whenever current_page leaves kSoftApInputsPage or
\* kLocationInputsPage, the task that stops the server of the page has been
\* enqueued
C37_ServerStoppedWhenPageLeft ==
  [][\A page \in {kSoftApInputsPage, kLocationInputsPage} :
       (current_page = page /\ current_page' # page) => StopRequested(page)]_vars

\* the pages that show a server's address
ServerPages == {kSoftApInputsPage, kLocationInputsPage}

\* C38: on kSoftApInputsPage and kLocationInputsPage the inactivity check
\* neither calls SetPage(kScreensaverPage) nor enqueues the stop task while
\* inactivity_millis is at most 5 * kInactivityMillisLimit
C38_LongerLimitOnServerPages ==
  [][(UiRunsStmt("inactivity check") /\ current_page \in ServerPages
        /\ inactivity_millis <= 5 * kInactivityMillisLimit) =>
       (/\ ~ScreensaverCalled(sp_stmts')
        /\ sp_stmts' = Tail(sp_stmts))]_vars

\* C39: at the end of the input block that started on the screensaver page
\* current_page is kMainPage and highlight is kCursorNoSelection, and the
\* block has moved no cursor, saved no setting and enqueued no task,
\* whichever button or touch the input was
C39_InputOnScreensaverOnlyWakes ==
  (ui_handler = "input" /\ ui_page = kScreensaverPage /\ UiAt({"return"})) =>
    /\ current_page = kMainPage
    /\ highlight = kCursorNoSelection
    /\ ui_done \cap {"MoveCursor", "AddSecondCoreTaskIfNotThere", "SaveLongPressSeconds",
                     "SaveWeatherUnits", "SettingsPage(inc, dec)"} = {}

\* loop1 leaves the dispatch
Dispatches == pc1 = "dispatch" /\ pc1' # "dispatch"

\* loop1 leaves the dispatch without a call of the task's operation
Skips == Dispatches /\ attempts' = 0

====
